---- MODULE Spec2Model ----
(***************************************************************************)
(* Model of the Beats service (provenonce-beats): the canonical anchor     *)
(* selector, the anchor continuity predicate, the ledger publish path, the *)
(* cron anchor advancer, the work-proof endpoint and the verify endpoint   *)
(* with the beat, chain and check-in proof verifiers of lib/beat.ts.       *)
(*                                                                         *)
(* JavaScript values are modelled as follows.  A string that the code      *)
(* inspects character by character (hashes, secrets, headers) is a         *)
(* sequence of one-character strings.  An object is a record; a field the  *)
(* object does not have (undefined) is a field the record does not have.   *)
(* null is the record NULL.  A nullable string is <<>> (null) or <<s>>.    *)
(***************************************************************************)
EXTENDS Integers, Sequences, FiniteSets, TLC

VARIABLES
  selInput,      \* selectCanonicalAnchor: the candidate list passed in
  selResult,     \* selectCanonicalAnchor: the value returned for selInput
  selBase,       \* the value returned for the list in its first order
  contLatest,    \* isContinuousNextAnchor: argument latest
  contIncoming,  \* isContinuousNextAnchor: argument incoming
  contResult,    \* isContinuousNextAnchor: <<>>, or <<b>> once b is returned
  now,           \* Date.now(), in ms
  cronSecret,    \* process.env.CRON_SECRET: <<>> (unset) or <<string>>
  ledger,        \* the writer's finalized transactions, oldest first
  txs,           \* status of the transaction each invocation has sent
  inv,           \* the invocations of GET /api/cron/anchor
  limiterMap,    \* work-proof route: the map of its RateLimiter
  anchorCache,   \* lib/solana.ts _anchorCache: NULL or [value, expiresAt]
  wp,            \* the request POST /api/v1/beat/work-proof is serving
  served,        \* the number of requests that endpoint has received
  verifyLimiterMap, \* verify route: the map of its RateLimiter
  vf,            \* the request POST /api/v1/beat/verify served last
  tsLimiters,    \* timestamp route: the maps of its four RateLimiters
  proTierToken,  \* process.env.BEATS_PRO_TIER_TOKEN: <<>> or <<string>>
  ts,            \* the request POST /api/v1/beat/timestamp served last
  tsPublished,   \* memos published for the client in each limiter's window
  rlMap,         \* a RateLimiter: the entries of the keys followed
  rlCrowd,       \* a RateLimiter: the entries of all other keys, in groups
  rlLast,        \* a RateLimiter: the call of check made last
  rlAllowed,     \* calls of a key that check allowed in its current window
  acCallers,     \* the calls of readLatestAnchorCached, one per caller
  acProduced,    \* when the read that filled _anchorCache was started
  acRead,        \* the length of the ledger that read was answered from
  sdkLastAnchor, \* beats client: _lastAnchor
  sdkBroken,     \* beats client: _broken
  sdkCalls,      \* beats client: its calls of getAnchor
  sdkRequests,   \* beats client: the requests it has sent for an anchor
  sdkLast,       \* beats client: its call of setLastKnownAnchor or resync
  tp,            \* the canonical tip: the last two reads of readLatestAnchor
  krPinned,      \* beats client: the pinnedPublicKey it was created with
  krCached,      \* beats client: _cachedKey
  krCalls,       \* beats client: its calls of verifyReceipt and getAnchor
  rc,            \* a receipt: as signed, as it travels, as verified
  lc,            \* a LocalBeatChain: its private fields
  lcSeen,        \* the calls made on it one after the other, counted
  lcProof,       \* getProof, if it was called last: what it returned
  lcRestored,    \* restore, if it was called last: the chain it made
  lcCalls,       \* its advance() calls in flight, one per caller
  lcLoops,       \* the auto-advance loops: where each tick is
  lcAuto,        \* #autoHandle and #autoRunning
  lcFired        \* the number of onAdvance callbacks made

selVars == <<selInput, selResult, selBase>>
contVars == <<contLatest, contIncoming, contResult>>
cronVars == <<now, cronSecret, ledger, txs, inv>>
wpVars == <<limiterMap, anchorCache, wp, served>>
vfVars == <<verifyLimiterMap, vf>>
tsVars == <<tsLimiters, proTierToken, ts, tsPublished>>
rlVars == <<rlMap, rlCrowd, rlLast, rlAllowed>>
acVars == <<acCallers, acProduced, acRead>>
sdkVars == <<sdkLastAnchor, sdkBroken, sdkCalls, sdkRequests, sdkLast>>
tipVars == <<tp>>
keyVars == <<krPinned, krCached, krCalls>>
rcVars == <<rc>>
lcVars ==
  <<lc, lcSeen, lcProof, lcRestored, lcCalls, lcLoops, lcAuto, lcFired>>
finalVars == <<tipVars, keyVars, rcVars, lcVars>>
tsOthers == <<rlVars, acVars, sdkVars, finalVars>>
rlOthers == <<tsVars, acVars, sdkVars, finalVars>>
acOthers == <<tsVars, rlVars, sdkVars, finalVars>>
sdkOthers == <<tsVars, rlVars, acVars, finalVars>>
laterVars == <<tsVars, rlVars, acVars, sdkVars, finalVars>>
tipOthers == <<tsVars, rlVars, acVars, sdkVars, keyVars, rcVars, lcVars>>
keyOthers == <<tsVars, rlVars, acVars, sdkVars, tipVars, rcVars, lcVars>>
rcOthers == <<tsVars, rlVars, acVars, sdkVars, tipVars, keyVars, lcVars>>
lcOthers == <<tsVars, rlVars, acVars, sdkVars, tipVars, keyVars, rcVars>>

\* ------------------------------------------------------------------ bounds

\* Longest candidate list handed to selectCanonicalAnchor.
MaxCands == 4

\* Invocations of the cron handler in one behaviour.
MaxInvocations == 2

\* Clock ticks in one behaviour.
MaxTicks == 3

\* Timestamp memos the timestamp endpoint publishes in one behaviour.
MaxTimestamps == 1

\* ---------------------------------------------------------------- JS values

NULL == [null |-> TRUE]
NotRun == [notrun |-> TRUE]

Has(o, f) == f \in DOMAIN o

Rep(c, n) == [i \in 1..n |-> c]

Range(s) == {s[i] : i \in 1..Len(s)}

\* ------------------------------------------------------- anchor-canonical.js

HEX64_LENGTH == 64

HexDigits == {"0", "1", "2", "3", "4", "5", "6", "7", "8", "9"}
HexLower == {"a", "b", "c", "d", "e", "f"}
HexUpper == {"A", "B", "C", "D", "E", "F"}

\* const HEX64 = /^[0-9a-f]{64}$/i, applied to a field that may be missing.
HexChars == HexDigits \cup HexLower \cup HexUpper

HEX64(o, f) ==
  /\ Has(o, f)
  /\ Len(o[f]) = HEX64_LENGTH
  /\ \A i \in 1..HEX64_LENGTH : o[f][i] \in HexChars

\* Number.isInteger(o.f): false for a missing field.
IsInteger(o, f) == Has(o, f) /\ o[f] \in Int

\* createHash('sha256').update('provenonce:beat:genesis:v1:2026').digest('hex')
genesisPrevHash ==
  << "1","4","1","d","6","3","f","a","5","6","e","1","6","c","9","b",
     "3","8","0","b","e","7","a","4","9","e","d","0","8","2","d","4",
     "c","d","9","3","6","9","5","5","4","f","1","3","d","d","3","5",
     "d","5","3","6","7","0","0","d","b","9","e","6","3","6","4","2" >>

\* Collation rank of a hex character: digits before letters, case ignored at
\* the first level.
CharRank(c) ==
  CASE c = "0" -> 0 [] c = "1" -> 1 [] c = "2" -> 2 [] c = "3" -> 3
    [] c = "4" -> 4 [] c = "5" -> 5 [] c = "6" -> 6 [] c = "7" -> 7
    [] c = "8" -> 8 [] c = "9" -> 9
    [] c \in {"a", "A"} -> 10 [] c \in {"b", "B"} -> 11
    [] c \in {"c", "C"} -> 12 [] c \in {"d", "D"} -> 13
    [] c \in {"e", "E"} -> 14 [] c \in {"f", "F"} -> 15

\* String.prototype.localeCompare on two strings of hex characters of equal
\* length: -1, 0 or 1.  First level by CharRank; among strings equal at the
\* first level, lower case sorts before upper case at the first difference.
localeCompare(a, b) ==
  LET n == Len(a)
      primDiff == {i \in 1..n : CharRank(a[i]) # CharRank(b[i])}
      caseDiff == {i \in 1..n : a[i] # b[i]}
      first(S) == CHOOSE i \in S : \A j \in S : i <= j
  IN  IF primDiff # {}
        THEN IF CharRank(a[first(primDiff)]) < CharRank(b[first(primDiff)])
               THEN -1 ELSE 1
        ELSE IF caseDiff # {}
               THEN IF a[first(caseDiff)] \in HexLower THEN -1 ELSE 1
               ELSE 0

\* The guard shared by isContinuousNextAnchor and selectCanonicalAnchor:
\* !c || !Number.isInteger(c.beat_index) || !HEX64.test(c.hash)
\*    || !HEX64.test(c.prev_hash)  is false.
WellFormed(c) ==
  /\ c # NULL
  /\ IsInteger(c, "beat_index")
  /\ HEX64(c, "hash")
  /\ HEX64(c, "prev_hash")

\* isContinuousNextAnchor without the beat_index comparison of its last line.
isContinuousNextAnchor_NoIndexCheck(latest, incoming) ==
  IF ~WellFormed(incoming) THEN FALSE
  ELSE IF latest = NULL
    THEN incoming.beat_index = 0 /\ incoming.prev_hash = genesisPrevHash
    ELSE Has(latest, "hash") /\ incoming.prev_hash = latest.hash

isContinuousNextAnchor(latest, incoming) ==
  IF ~WellFormed(incoming) THEN FALSE
  ELSE IF latest = NULL
    THEN incoming.beat_index = 0 /\ incoming.prev_hash = genesisPrevHash
    ELSE /\ Has(latest, "beat_index")
         /\ incoming.beat_index = latest.beat_index + 1
         /\ Has(latest, "hash")
         /\ incoming.prev_hash = latest.hash

\* `${c.beat_index}|${c.hash}|${c.prev_hash}|${c.utc}|${c.difficulty}|${c.epoch}`
DedupeKey(c) ==
  <<c.beat_index, c.hash, c.prev_hash, c.utc, c.difficulty, c.epoch>>

\* The loop that fills deduped: a malformed candidate is skipped, and so is a
\* candidate whose key is already in seen.
RECURSIVE Dedupe(_)
Dedupe(candidates) ==
  IF candidates = <<>> THEN <<>>
  ELSE
    LET n == Len(candidates)
        c == candidates[n]
        deduped == Dedupe(SubSeq(candidates, 1, n - 1))
    IN  IF ~WellFormed(c) THEN deduped
        ELSE IF \E i \in 1..Len(deduped) : DedupeKey(deduped[i]) = DedupeKey(c)
          THEN deduped
          ELSE Append(deduped, c)

\* byIndex.get(idx)?.get(hash): the Map of Maps filled in list order, so a
\* later candidate with the same beat_index and hash replaces an earlier one.
ByIndexGet(deduped, idx, hash) ==
  LET at == {i \in 1..Len(deduped) :
               deduped[i].beat_index = idx /\ deduped[i].hash = hash}
  IN  IF at = {} THEN NULL
      ELSE deduped[CHOOSE i \in at : \A j \in at : j <= i]

\* The while loop of scored: follow prev_hash down through byIndex.
RECURSIVE WalkDepth(_, _, _)
WalkDepth(deduped, current, depth) ==
  IF current.beat_index > 0
    THEN LET prev == ByIndexGet(deduped, current.beat_index - 1,
                                current.prev_hash)
         IN  IF prev = NULL THEN depth
             ELSE WalkDepth(deduped, prev, depth + 1)
    ELSE depth

Score(deduped, tip) ==
  LET depth == WalkDepth(deduped, tip, 1)
  IN  [tip |-> tip,
       depth |-> depth,
       linked |-> IF tip.beat_index = 0
                    THEN tip.prev_hash = genesisPrevHash
                    ELSE depth > 1]

\* The comparator with the operands of localeCompare exchanged.
CompareScored_HashDescending(a, b) ==
  IF b.tip.beat_index # a.tip.beat_index
    THEN b.tip.beat_index - a.tip.beat_index
  ELSE IF b.depth # a.depth THEN b.depth - a.depth
  ELSE localeCompare(b.tip.hash, a.tip.hash)

\* The comparator handed to pool.sort: negative when a sorts before b.
CompareScored(a, b) ==
  IF b.tip.beat_index # a.tip.beat_index
    THEN b.tip.beat_index - a.tip.beat_index
  ELSE IF b.depth # a.depth THEN b.depth - a.depth
  ELSE localeCompare(a.tip.hash, b.tip.hash)

\* Array.prototype.sort with a comparator: a stable insertion sort.
RECURSIVE InsertSorted(_, _)
InsertSorted(sorted, x) ==
  IF sorted = <<>> THEN <<x>>
  ELSE IF CompareScored(x, sorted[Len(sorted)]) < 0
    THEN Append(InsertSorted(SubSeq(sorted, 1, Len(sorted) - 1), x),
                sorted[Len(sorted)])
    ELSE Append(sorted, x)

RECURSIVE SortScored(_)
SortScored(pool) ==
  IF pool = <<>> THEN <<>>
  ELSE InsertSorted(SortScored(SubSeq(pool, 1, Len(pool) - 1)),
                    pool[Len(pool)])

selectCanonicalAnchor(candidates) ==
  IF Len(candidates) = 0 THEN NULL
  ELSE
    LET deduped == Dedupe(candidates)
    IN  IF Len(deduped) = 0 THEN NULL
        ELSE
          LET scored == [i \in 1..Len(deduped) |-> Score(deduped, deduped[i])]
              linkedOnly == SelectSeq(scored, LAMBDA s : s.linked)
              pool == IF Len(linkedOnly) > 0 THEN linkedOnly ELSE scored
          IN  SortScored(pool)[1].tip

\* --------------------------------------------- inputs tried on the selector

HashA == Rep("a", HEX64_LENGTH)
HashB == Rep("b", HEX64_LENGTH)
HashC == Rep("c", HEX64_LENGTH)
HashF == Rep("f", HEX64_LENGTH)
Hash9 == Rep("9", HEX64_LENGTH)

\* mk(idx, hash, prev) of tests/anchor-canonicalization.test.mjs, with utc
\* given explicitly.
mk(idx, hash, prev, utc) ==
  [beat_index |-> idx, hash |-> hash, prev_hash |-> prev, utc |-> utc,
   difficulty |-> 1000, epoch |-> 0]

CandidatePool ==
  { mk(0, HashA, genesisPrevHash, 0),      \* a0: genesis
    mk(1, HashB, HashA, 1),                \* a1, linked to a0
    mk(1, HashB, Hash9, 2),                \* a1 again with another prev_hash
    mk(1, HashF, HashA, 1),                \* a fork at index 1
    mk(2, HashC, HashB, 2),                \* a2, linked to a1
    mk(3, HashF, Hash9, 3),                \* unlinked, highest index
    mk(4, <<"s", "h", "o", "r", "t">>, HashF, 4) }   \* malformed hash

\* The arguments tried on isContinuousNextAnchor: the candidates above and
\* more malformed ones.
ContinuityPool ==
  CandidatePool \cup
  { NULL,                                  \* no anchor
    mk(0, HashA, HashB, 0),                \* index 0, prev not the genesis
    mk(2, HashF, HashA, 2),                \* a jump: index 2 on a0's hash
    [hash |-> HashA, prev_hash |-> HashB, utc |-> 0,
     difficulty |-> 1000, epoch |-> 0],    \* no beat_index
    mk(1, HashB, Rep("g", HEX64_LENGTH), 1),        \* malformed prev_hash
    mk(1, Rep("B", HEX64_LENGTH), HashA, 1) }       \* upper-case hash

CandidateLists == UNION {[1..n -> CandidatePool] : n \in 0..MaxCands}

\* ------------------------------------------------------------ lib/beat.ts

GLOBAL_ANCHOR_INTERVAL_SEC == 60
DEFAULT_DIFFICULTY == 1000

None == <<>>
Some(x) == <<x>>

\* The finalized blockhashes the RPC node can hand out (base58 strings).
Entropies == {"E1", "E2"}

HexDigitSeq ==
  << "0","1","2","3","4","5","6","7","8","9","a","b","c","d","e","f" >>

HexDigitOf(n) == HexDigitSeq[(n % 16) + 1]

EntropyDigit(solanaEntropy) == IF solanaEntropy = "E1" THEN "1" ELSE "2"

\* SHA-256 over prefix || prev_hash || u64be(beat_index) || entropy, as a
\* 64-character lower-case hex digest.  The digest is a function of the three
\* inputs that vary, and distinct inputs give distinct digests on the chains
\* the model builds: the index and the entropy are shifted in at the front of
\* the previous digest.
computeAnchorHashV3(prevHash, beatIndex, solanaEntropy) ==
  <<HexDigitOf(beatIndex), EntropyDigit(solanaEntropy)>>
    \o SubSeq(prevHash, 1, HEX64_LENGTH - 2)

\* The nonce of a beat is None (undefined), Some(s) for a string s, or
\* <<"anchor", utc, epoch>> for the string `anchor:${utc}:${epoch}`.  The
\* seed takes `nonce || ''`, so undefined and the empty string give one seed.
NonceDigit(nonce) ==
  IF nonce = None \/ nonce = Some(<<>>) THEN "0"
  ELSE IF Len(nonce) = 3 THEN HexDigitOf(10 + nonce[2] + nonce[3])
  ELSE IF nonce[1] = <<"n", "1">> THEN "1"
  ELSE "2"

\* The part of the seed that anchorHash contributes: nothing when anchorHash
\* is undefined or empty, `:${anchorHash}` otherwise.
AnchorDigits(anchorHash) ==
  IF anchorHash = None \/ anchorHash = Some(<<>>) THEN <<"0", "0">>
  ELSE <<"1", anchorHash[1][1]>>

\* The digits the work factor leaves in the digest: difficulty mod 256.
DifficultyDigits(difficulty) ==
  <<HexDigitOf(difficulty), HexDigitOf(difficulty \div 16)>>

\* computeBeat: SHA-256 of the seed, hashed again `difficulty` times, as a
\* 64-character lower-case hex digest.  The digest is a function of the five
\* arguments, and arguments that differ give digests that differ on the
\* values the model uses: index and difficulty modulo 256, the nonce, the
\* anchor hash's presence and first character, and the previous hash are
\* shifted in at the front of the previous hash.  timestamp (Date.now()) is
\* read by no caller and is left out of the record.
computeBeat(prevHash, beatIndex, difficulty, nonce, anchorHash) ==
  [index |-> beatIndex,
   hash |-> <<HexDigitOf(beatIndex), HexDigitOf(beatIndex \div 16)>>
              \o DifficultyDigits(difficulty)
              \o <<NonceDigit(nonce)>>
              \o AnchorDigits(anchorHash)
              \o SubSeq(prevHash, 1, HEX64_LENGTH - 7),
   prev |-> prevHash,
   nonce |-> nonce,
   anchor_hash |-> anchorHash]

\* A verifier that recomputes at the default difficulty whatever difficulty
\* it is handed.
verifyBeat_DefaultDifficulty(beat, difficulty) ==
  computeBeat(beat.prev, beat.index, DEFAULT_DIFFICULTY, beat.nonce,
              beat.anchor_hash).hash = beat.hash

\* verifyBeat: recompute and compare the hashes.
verifyBeat(beat, difficulty) ==
  computeBeat(beat.prev, beat.index, difficulty, beat.nonce,
              beat.anchor_hash).hash = beat.hash

\* createGlobalAnchor; solanaEntropy is None or Some(e), utc is Date.now().
createGlobalAnchor(prevAnchor, difficulty, epoch, solanaEntropy, utc) ==
  LET index == IF prevAnchor # NULL THEN prevAnchor.beat_index + 1 ELSE 0
      prevHash == IF prevAnchor # NULL /\ prevAnchor.hash # <<>>
                    THEN prevAnchor.hash ELSE genesisPrevHash
      base == [beat_index |-> index, prev_hash |-> prevHash, utc |-> utc,
               difficulty |-> difficulty, epoch |-> epoch]
  IN  IF solanaEntropy # None
        THEN [f \in DOMAIN base \cup {"hash", "solana_entropy"} |->
                IF f = "hash"
                  THEN computeAnchorHashV3(prevHash, index, solanaEntropy[1])
                  ELSE IF f = "solana_entropy" THEN solanaEntropy[1]
                  ELSE base[f]]
        ELSE [f \in DOMAIN base \cup {"hash"} |->
                IF f = "hash"
                  THEN computeBeat(prevHash, index, difficulty,
                                   <<"anchor", utc, epoch>>, None).hash
                  ELSE base[f]]

\* ------------------------------------------------------- memos on the wire

\* JSON text is the sequence of its <<key, value>> members, in the order
\* JSON.stringify writes them.
JsonKeys(json) == {json[k][1] : k \in DOMAIN json}

\* JSON.parse of an object: for a repeated key the last member wins.
JsonParse(json) ==
  [key \in JsonKeys(json) |->
     LET at == {k \in DOMAIN json : json[k][1] = key}
     IN  json[CHOOSE k \in at : \A m \in at : m <= k][2]]

\* JSON.stringify(anchorMemo) for the memo the cron handler builds; a field
\* whose value is undefined is left out.
AnchorMemoJson(newAnchor) ==
  << <<"v", 1>>, <<"type", "anchor">>,
     <<"beat_index", newAnchor.beat_index>>, <<"hash", newAnchor.hash>>,
     <<"prev", newAnchor.prev_hash>>, <<"utc", newAnchor.utc>>,
     <<"difficulty", newAnchor.difficulty>>, <<"epoch", newAnchor.epoch>> >>
    \o (IF Has(newAnchor, "solana_entropy")
          THEN << <<"solana_entropy", newAnchor.solana_entropy>> >>
          ELSE << >>)

\* JSON.stringify of the memo the timestamp endpoint builds.
TimestampMemoJson(hash, anchor, utc) ==
  << <<"v", 1>>, <<"type", "timestamp">>, <<"hash", hash>>,
     <<"anchor_index", anchor.beat_index>>, <<"anchor_hash", anchor.hash>>,
     <<"utc", utc>> >>

\* The memo string of a signature as the RPC node returns it: "[n] " and the
\* memo text, n being the length of the text.
RpcMemo(json) == [bracket |-> Some(Len(json)), body |-> json]

\* parseAnchorMemo: strip a leading "[n] ", JSON.parse, validate, and return
\* the six anchor fields.
parseAnchorMemo(memo) ==
  LET memoStr == memo.body
      parsed == JsonParse(memoStr)
  IN  IF ~(Has(parsed, "v") /\ parsed.v = 1
           /\ Has(parsed, "type") /\ parsed.type = "anchor") THEN NULL
      ELSE IF ~IsInteger(parsed, "beat_index") \/ parsed.beat_index < 0
        THEN NULL
      ELSE IF ~HEX64(parsed, "hash") \/ ~HEX64(parsed, "prev") THEN NULL
      ELSE IF ~IsInteger(parsed, "utc") \/ parsed.utc < 0 THEN NULL
      ELSE IF ~IsInteger(parsed, "difficulty") \/ parsed.difficulty <= 0
        THEN NULL
      ELSE IF ~IsInteger(parsed, "epoch") \/ parsed.epoch < 0 THEN NULL
      ELSE [beat_index |-> parsed.beat_index, hash |-> parsed.hash,
            prev_hash |-> parsed.prev, utc |-> parsed.utc,
            difficulty |-> parsed.difficulty, epoch |-> parsed.epoch]

\* ----------------------------------------------------------- lib/solana.ts

timeoutMs == 60000
pollIntervalMs == 2000
limit == 50

\* getSignaturesForAddress(wallet, {limit: 50}, 'finalized'): the newest
\* finalized signatures of the wallet, newest first.
getSignaturesForAddress(l) ==
  LET n == IF Len(l) < limit THEN Len(l) ELSE limit
  IN  [k \in 1..n |-> l[Len(l) - k + 1]]

IsAnchorSignature(sig) == parseAnchorMemo(sig.memo) # NULL

\* The candidate readLatestAnchor pushes for a signature whose memo parses
\* as an anchor; NULL for a signature it passes over.
Candidate(sig) ==
  LET parsed == parseAnchorMemo(sig.memo)
  IN  IF parsed = NULL THEN NULL
      ELSE [beat_index |-> parsed.beat_index, hash |-> parsed.hash,
            prev_hash |-> parsed.prev_hash, utc |-> parsed.utc,
            difficulty |-> parsed.difficulty, epoch |-> parsed.epoch,
            signature |-> sig.signature, tx_signature |-> sig.signature]

RECURSIVE Candidates(_)
Candidates(sigs) ==
  IF sigs = <<>> THEN <<>>
  ELSE LET c == Candidate(Head(sigs))
       IN  IF c = NULL THEN Candidates(Tail(sigs))
           ELSE <<c>> \o Candidates(Tail(sigs))

\* readLatestAnchor on the ledger l.
readLatestAnchor(l) ==
  selectCanonicalAnchor(Candidates(getSignaturesForAddress(l)))

\* The statuses getSignatureStatuses reports for a transaction: "sent" is a
\* transaction the node has no status for yet, "failed" one with status.err.
Statuses == {"none", "sent", "processed", "confirmed", "finalized", "failed"}

\* A polling loop that takes 'confirmed' for final.
PollOutcome_ReturnsOnConfirmed(status) ==
  IF status = "failed" THEN "throw"
  ELSE IF status \in {"confirmed", "finalized"} THEN "return"
  ELSE "sleep"

\* One pass of the polling loop of sendAndConfirmTx on the reported status.
PollOutcome(status) ==
  IF status = "failed" THEN "throw"
  ELSE IF status = "finalized" THEN "return"
  ELSE "sleep"

\* ---------------------------------------------- app/api/cron/anchor/route.ts

Bearer == <<"B", "e", "a", "r", "e", "r", " ">>

\* A comparison that answers with the result of the padded comparison when
\* the lengths differ.
constantTimeSecretEqual_Padded(provided, expected) ==
  \A k \in 1..Len(expected) :
    k <= Len(provided) /\ provided[k] = expected[k]

constantTimeSecretEqual(provided, expected) ==
  IF Len(provided) # Len(expected) THEN FALSE
  ELSE \A k \in 1..Len(expected) : provided[k] = expected[k]

\* The two guards at the head of GET: the status of the refusal, or 0 when
\* the request is let through.
AuthStatus(secret, authHeader) ==
  IF secret = None \/ secret[1] = <<>> THEN 503
  ELSE IF \/ authHeader = None
          \/ authHeader[1] = <<>>
          \/ ~constantTimeSecretEqual(authHeader[1], Bearer \o secret[1])
    THEN 401
  ELSE 0

\* const stale = !latest || age > GLOBAL_ANCHOR_INTERVAL_SEC * 1000
Stale(latest, t) ==
  latest = NULL \/ t - latest.utc > GLOBAL_ANCHOR_INTERVAL_SEC * 1000

\* A handler that goes on without entropy.
EntropyUnavailable_FailOpen(solanaEntropy) == FALSE

\* if (!solanaEntropy): the handler refuses to advance.
EntropyUnavailable(solanaEntropy) == solanaEntropy = None

\* prevAnchor as the handler rebuilds it from latest.
PrevAnchor(latest) ==
  IF latest = NULL THEN NULL
  ELSE [beat_index |-> latest.beat_index, hash |-> latest.hash,
        prev_hash |-> latest.prev_hash, utc |-> latest.utc,
        difficulty |-> latest.difficulty, epoch |-> latest.epoch]

\* newAnchor as the handler computes it after the entropy fetch.
NewAnchor(latest, solanaEntropy, utc) ==
  LET prevAnchor == PrevAnchor(latest)
      epoch == IF prevAnchor # NULL THEN prevAnchor.epoch ELSE 0
      difficulty == IF prevAnchor # NULL THEN prevAnchor.difficulty
                    ELSE DEFAULT_DIFFICULTY
  IN  createGlobalAnchor(prevAnchor, difficulty, epoch, solanaEntropy, utc)

\* One tick of the clock: fifteen polling intervals, half the polling
\* timeout and half the anchor interval.
TickMs == 15 * pollIntervalMs

Invocations == 1..MaxInvocations

Secrets == {None, Some(<<>>), Some(<<"s">>)}

\* The Authorization headers a caller sends: none, the right one, one of the
\* right length with another secret, and the right one with a character more.
Headers(secret) ==
  LET s == IF secret = None THEN <<"s">> ELSE secret[1]
  IN  {None, Some(Bearer \o s), Some(Bearer \o <<"x">>),
       Some(Bearer \o s \o <<"!">>)}

NoResponse == [status |-> 0, body |-> ""]

IdleInvocation ==
  [pc |-> "idle", authHeader |-> None, t0 |-> 0, latest |-> NULL,
   gateNow |-> 0, fetched |-> FALSE, solanaEntropy |-> None,
   newAnchor |-> NULL, start |-> 0, wake |-> 0, lastStatus |-> "none",
   response |-> NoResponse, accessed |-> FALSE,
   after |-> {}, during |-> {}]

CronIdle ==
  /\ now = 0
  /\ cronSecret = None
  /\ ledger = <<>>
  /\ txs = [s \in Invocations |-> "none"]
  /\ inv = [i \in Invocations |-> IdleInvocation]

\* ------------------------------------------------------- lib/rate-limit.ts

\* A limiter whose window is moved on by every call.
RateLimiterCheck_Sliding(m, ip, t, maxRequests, windowMs) ==
  LET entry == m[ip]
  IN  IF entry = NULL \/ t >= entry.resetAt
        THEN [allowed |-> TRUE, remaining |-> maxRequests - 1,
              resetAt |-> t + windowMs,
              map |-> [m EXCEPT ![ip] =
                         [count |-> 1, resetAt |-> t + windowMs]]]
        ELSE [allowed |-> ~(entry.count + 1 > maxRequests),
              remaining |-> IF entry.count + 1 > maxRequests THEN 0
                            ELSE maxRequests - (entry.count + 1),
              resetAt |-> t + windowMs,
              map |-> [m EXCEPT ![ip] = [count |-> entry.count + 1,
                                         resetAt |-> t + windowMs]]]

\* RateLimiter.check(ip) at time t on the map m: the result and the map
\* after the call.  An entry is NULL (absent) or [count, resetAt].
RateLimiterCheck(m, ip, t, maxRequests, windowMs) ==
  LET entry == m[ip]
  IN  IF entry = NULL \/ t >= entry.resetAt
        THEN [allowed |-> TRUE, remaining |-> maxRequests - 1,
              resetAt |-> t + windowMs,
              map |-> [m EXCEPT ![ip] =
                         [count |-> 1, resetAt |-> t + windowMs]]]
        ELSE [allowed |-> ~(entry.count + 1 > maxRequests),
              remaining |-> IF entry.count + 1 > maxRequests THEN 0
                            ELSE maxRequests - (entry.count + 1),
              resetAt |-> entry.resetAt,
              map |-> [m EXCEPT ![ip].count = entry.count + 1]]

\* RateLimiter.cleanup() at time t on the map m.
cleanup(m, t) ==
  [ip \in DOMAIN m |->
     IF m[ip] # NULL /\ t >= m[ip].resetAt THEN NULL ELSE m[ip]]

\* rateLimitResponse.
rateLimitResponse(resetAt) ==
  [status |-> 429, body |-> "Too many requests. Please try again later."]

\* ------------------------------------------------ values of a request body

\* A value read from a parsed JSON body carries its JavaScript type.  A
\* number is an integer n, or the non-integer n + 1/2 ("frac"); a string is
\* the sequence of its characters; an array is the sequence of its elements.
JsUndefined == [t |-> "undefined"]
JsNull == [t |-> "null"]
JsNum(n) == [t |-> "number", k |-> "int", n |-> n]
JsFrac(n) == [t |-> "number", k |-> "frac", n |-> n]
JsNaN == [t |-> "number", k |-> "nan", n |-> 0]
JsStr(s) == [t |-> "string", s |-> s]
JsArr(a) == [t |-> "array", a |-> a]
JsObj(o) == [t |-> "object", o |-> o]

\* o?.f for a value o.
Field(v, f) ==
  IF v.t = "object" /\ Has(v.o, f) THEN v.o[f] ELSE JsUndefined

\* a ?? b.
Coalesce(a, b) == IF a.t \in {"undefined", "null"} THEN b ELSE a

\* Number.isInteger(v).
NumberIsInteger(v) == v.t = "number" /\ v.k = "int"

DecimalDigit(c) ==
  CASE c = "0" -> 0 [] c = "1" -> 1 [] c = "2" -> 2 [] c = "3" -> 3
    [] c = "4" -> 4 [] c = "5" -> 5 [] c = "6" -> 6 [] c = "7" -> 7
    [] c = "8" -> 8 [] c = "9" -> 9

RECURSIVE ParseDecimal(_)
ParseDecimal(s) ==
  IF s = <<>> THEN 0
  ELSE 10 * ParseDecimal(SubSeq(s, 1, Len(s) - 1)) + DecimalDigit(s[Len(s)])

\* Number(v): a number is itself, a string of decimal digits is its value,
\* the empty string and null are 0, true is 1 and false 0, and anything else
\* the model sends is NaN.
ToNumber(v) ==
  CASE v.t = "number" -> v
    [] v.t = "string" ->
         IF \A k \in 1..Len(v.s) : v.s[k] \in HexDigits
           THEN JsNum(ParseDecimal(v.s)) ELSE JsNaN
    [] v.t = "null" -> JsNum(0)
    [] v.t = "boolean" -> JsNum(IF v.b THEN 1 ELSE 0)
    [] OTHER -> JsNaN

RECURSIVE DecimalOf(_)
DecimalOf(n) ==
  IF n < 10 THEN <<HexDigitSeq[n + 1]>>
  ELSE DecimalOf(n \div 10) \o <<HexDigitSeq[(n % 10) + 1]>>

\* String(v) and `${v}`: a string is itself, a non-negative integer its
\* decimal digits, an array of one element the string of that element.
StringOf(v) ==
  CASE v.t = "string" -> v.s
    [] v.t = "number" /\ v.k = "int" /\ v.n >= 0 -> DecimalOf(v.n)
    [] v.t = "array" /\ Len(v.a) = 1 /\ v.a[1].t = "string" -> v.a[1].s
    [] OTHER -> <<"?">>

LowerOf(c) ==
  CASE c = "A" -> "a" [] c = "B" -> "b" [] c = "C" -> "c"
    [] c = "D" -> "d" [] c = "E" -> "e" [] c = "F" -> "f" [] OTHER -> c

\* String.prototype.toLowerCase on a string of hex characters.
toLowerCase(s) == [k \in 1..Len(s) |-> LowerOf(s[k])]

\* HEX64.test(s) for a string s.
HEX64_test(s) ==
  Len(s) = HEX64_LENGTH /\ \A k \in 1..Len(s) : s[k] \in HexChars

\* ----------------------------------------- app/api/v1/beat/work-proof/route

MIN_DIFFICULTY == 100
ANCHOR_HASH_GRACE_WINDOW == 5
PUBLIC_MAX_DIFFICULTY == 5000
PUBLIC_MAX_SPOT_CHECKS == 25
MIN_SPOT_CHECKS == 3
WorkProofMaxRequests == 10
WorkProofWindowMs == 60000
AnchorCacheTtlMs == 10000

Min(a, b) == IF a < b THEN a ELSE b

JsonResponse(status, err) == [status |-> status, body |-> err]

\* invalid(reason): 200 with {valid: false, reason}.
invalid(reason) == [status |-> 200, valid |-> FALSE, reason |-> reason]

\* The fields POST extracts from the body.
WorkProofFields(body) ==
  LET proof == Coalesce(Field(body, "work_proof"), body)
      str(f) == Field(proof, f).t = "string"
  IN  [wp |-> proof,
       fromHash |-> IF str("from_hash")
                      THEN toLowerCase(Field(proof, "from_hash").s) ELSE <<>>,
       toHash |-> IF str("to_hash")
                    THEN toLowerCase(Field(proof, "to_hash").s) ELSE <<>>,
       beatsComputed |-> Field(proof, "beats_computed"),
       anchorIndex |-> Field(proof, "anchor_index"),
       anchorHash |-> IF str("anchor_hash")
                        THEN Some(toLowerCase(Field(proof, "anchor_hash").s))
                        ELSE None,
       spotChecks |-> IF Field(proof, "spot_checks").t = "array"
                        THEN Field(proof, "spot_checks").a ELSE <<>>]

\* The shape validation of one spot check: the error, or "" when it passes.
SpotCheckShape(sc) ==
  IF ~NumberIsInteger(Field(sc, "index")) \/ Field(sc, "index").n < 0
    THEN "index must be a non-negative integer"
  ELSE IF ~HEX64_test(StringOf(Coalesce(Field(sc, "hash"), JsStr(<<>>))))
    THEN "hash must be 64 hex characters"
  ELSE IF ~HEX64_test(StringOf(Coalesce(Field(sc, "prev"), JsStr(<<>>))))
    THEN "prev must be 64 hex characters"
  ELSE ""

\* Structural validation: the 400 error of the first check that fails, or
\* "" when the request is well formed.
StructuralError(x) ==
  IF ~HEX64_test(x.fromHash)
    THEN "from_hash must be 64 lowercase hex characters"
  ELSE IF ~HEX64_test(x.toHash)
    THEN "to_hash must be 64 lowercase hex characters"
  ELSE IF ~NumberIsInteger(x.beatsComputed) \/ x.beatsComputed.n < 1
    THEN "beats_computed must be a positive integer"
  ELSE IF ~NumberIsInteger(x.anchorIndex) \/ x.anchorIndex.n < 0
    THEN "anchor_index must be a non-negative integer"
  ELSE IF x.anchorHash # None /\ ~HEX64_test(x.anchorHash[1])
    THEN "anchor_hash must be 64 lowercase hex characters when provided"
  ELSE IF Len(x.spotChecks) = 0
    THEN "spot_checks must be a non-empty array"
  ELSE IF Len(x.spotChecks) > PUBLIC_MAX_SPOT_CHECKS
    THEN "Too many spot checks"
  ELSE LET bad == {i \in 1..Len(x.spotChecks) :
                     SpotCheckShape(x.spotChecks[i]) # ""}
       IN  IF bad = {} THEN ""
           ELSE SpotCheckShape(
                  x.spotChecks[CHOOSE i \in bad : \A j \in bad : i <= j])

\* rawDifficulty = Number(wp?.difficulty ?? 0).
RawDifficulty(x) == ToNumber(Coalesce(Field(x.wp, "difficulty"), JsNum(0)))

\* The test of line 185 on rawDifficulty.
InsufficientDifficulty(rawDifficulty) ==
  ~NumberIsInteger(rawDifficulty) \/ rawDifficulty.n < MIN_DIFFICULTY

\* difficulty = Math.min(rawDifficulty, PUBLIC_MAX_DIFFICULTY).
ClampedDifficulty(x) == Min(RawDifficulty(x).n, PUBLIC_MAX_DIFFICULTY)

ScIndices(x) == {Field(x.spotChecks[i], "index").n : i \in 1..Len(x.spotChecks)}

MinOf(S) == CHOOSE a \in S : \A b \in S : a <= b
MaxOf(S) == CHOOSE a \in S : \A b \in S : b <= a

\* Logic checks that look at the span before the number of spot checks.
EarlyLogicReason_SpanFirst(x) ==
  IF InsufficientDifficulty(RawDifficulty(x)) THEN "insufficient_difficulty"
  ELSE IF MaxOf(ScIndices(x)) - MinOf(ScIndices(x)) > x.beatsComputed.n
    THEN "count_mismatch"
  ELSE IF Len(x.spotChecks) < Min(MIN_SPOT_CHECKS, x.beatsComputed.n)
    THEN "insufficient_spot_checks"
  ELSE ""

\* The three logic checks made before the tip is read: the reason of the
\* first that fails, or "".
EarlyLogicReason(x) ==
  IF InsufficientDifficulty(RawDifficulty(x)) THEN "insufficient_difficulty"
  ELSE IF Len(x.spotChecks) < Min(MIN_SPOT_CHECKS, x.beatsComputed.n)
    THEN "insufficient_spot_checks"
  ELSE IF MaxOf(ScIndices(x)) - MinOf(ScIndices(x)) > x.beatsComputed.n
    THEN "count_mismatch"
  ELSE ""

\* The freshness test of lines 214-219 on the anchor the read returned.
StaleAnchor(currentAnchor, anchorIndex) ==
  /\ currentAnchor # NULL
  /\ \/ currentAnchor.beat_index - anchorIndex > ANCHOR_HASH_GRACE_WINDOW
     \/ anchorIndex > currentAnchor.beat_index

\* The beat the handler builds from a spot check.  prev enters the seed
\* through a template literal, nonce through `nonce || ''`.
SpotCheckBeat(sc, anchorHash) ==
  [index |-> Field(sc, "index").n,
   hash |-> Field(sc, "hash"),
   prev |-> StringOf(Field(sc, "prev")),
   nonce |-> IF Field(sc, "nonce").t = "string"
               THEN Some(Field(sc, "nonce").s) ELSE None,
   anchor_hash |-> anchorHash]

\* verifyBeat on that beat; === is false for a hash that is no string.
SpotCheckVerifies(sc, anchorHash, difficulty) ==
  LET beat == SpotCheckBeat(sc, anchorHash)
  IN  /\ beat.hash.t = "string"
      /\ verifyBeat([beat EXCEPT !.hash = beat.hash.s], difficulty)

\* failed: the indices of the spot checks that do not verify.
FailedSpotChecks(x, difficulty) ==
  {i \in 1..Len(x.spotChecks) :
     ~SpotCheckVerifies(x.spotChecks[i], x.anchorHash, difficulty)}

\* receiptPayload.
ReceiptPayload(x, difficulty, utc) ==
  [type |-> "work_proof", beats_verified |-> x.beatsComputed.n,
   difficulty |-> difficulty, anchor_index |-> x.anchorIndex.n,
   anchor_hash |-> IF x.anchorHash = None THEN NULL ELSE x.anchorHash[1],
   from_hash |-> x.fromHash, to_hash |-> x.toHash, utc |-> [iso |-> utc]]

\* signWorkProofReceipt: the signature over the canonical JSON of the
\* payload, which names the payload it covers.
signWorkProofReceipt(payload) == [signature_base64 |-> [over |-> payload]]

\* -------------------------------------------- work-proof: the requests sent

With(o, f, v) == [g \in DOMAIN o \cup {f} |-> IF g = f THEN v ELSE o[g]]
Without(o, f) == [g \in DOMAIN o \ {f} |-> o[g]]

\* The hash of beat i of the chain a client computes from HashA at
\* difficulty d with the anchor hash ah woven in.
RECURSIVE ClientChainHash(_, _, _)
ClientChainHash(i, d, ah) ==
  IF i = 0 THEN HashA
  ELSE CHOOSE hash \in {computeBeat(prev, i, d, None, ah).hash :
                          prev \in {ClientChainHash(i - 1, d, ah)}} : TRUE

SpotCheck(i, d, ah) ==
  JsObj([index |-> JsNum(i),
         hash |-> JsStr(ClientChainHash(i, d, ah)),
         prev |-> JsStr(ClientChainHash(i - 1, d, ah))])

\* The work proof of a client that computed `beats` beats at difficulty d on
\* anchor ai and discloses the beats idxs.
HonestProof(d, ai, ah, beats, idxs) ==
  LET base == [from_hash |-> JsStr(HashA),
               to_hash |-> JsStr(ClientChainHash(beats, d, ah)),
               beats_computed |-> JsNum(beats),
               difficulty |-> JsNum(d),
               anchor_index |-> JsNum(ai),
               spot_checks |->
                 JsArr([k \in 1..Len(idxs) |-> SpotCheck(idxs[k], d, ah)])]
  IN  JsObj(IF ah = None THEN base ELSE With(base, "anchor_hash", JsStr(ah[1])))

\* A body with field f set to v; undefined takes the field away.
SetField(p, f, v) ==
  JsObj(IF v = JsUndefined THEN Without(p.o, f) ELSE With(p.o, f, v))

SetSpotCheck(p, i, f, v) ==
  JsObj(With(p.o, "spot_checks",
    JsArr([p.o.spot_checks.a EXCEPT ![i] = SetField(@, f, v)])))

\* An edit <<i, f, v>> sets field f of the proof (i = 0) or of its i-th
\* spot check to v.
RECURSIVE Edited(_, _)
Edited(p, edits) ==
  IF edits = <<>> THEN p
  ELSE LET e == Head(edits)
       IN  Edited(IF e[1] = 0 THEN SetField(p, e[2], e[3])
                  ELSE SetSpotCheck(p, e[1], e[2], e[3]),
                  Tail(edits))

\* A plan <<d, ai, ah, beats, idxs, edits>>: the honest proof, then edited.
BuildProof(plan) ==
  Edited(HonestProof(plan[1], plan[2], plan[3], plan[4], plan[5]), plan[6])

\* Anchors on the ledger when the endpoint starts serving.
PublishedAnchors == 7

\* Requests the endpoint serves in one behaviour.
MaxServed == 2

\* Anchors that land while the endpoint serves.
MaxLandings == 1

Woven == Some(HashB)

Tip == PublishedAnchors - 1

Fresh(edits) == <<1000, Tip, Woven, 3, <<1, 2, 3>>, edits>>

\* Proofs that pass the structural validation: honest ones on anchors of
\* several ages and at several difficulties, and ones that fail one or
\* several of the logic checks.
WellFormedPlans ==
  << <<1000, 0, Woven, 3, <<1, 2, 3>>, <<>> >>,
     <<1000, 1, Woven, 3, <<1, 2, 3>>, <<>> >>,
     <<1000, 2, Woven, 3, <<1, 2, 3>>, <<>> >>,
     Fresh(<<>>),
     <<1000, Tip + 1, Woven, 3, <<1, 2, 3>>, <<>> >>,
     <<1000, Tip, None, 3, <<1, 2, 3>>, <<>> >>,
     <<100, Tip, Woven, 3, <<1, 2, 3>>, <<>> >>,
     <<5000, Tip, Woven, 3, <<1, 2, 3>>, <<>> >>,
     <<6000, Tip, Woven, 3, <<1, 2, 3>>, <<>> >>,
     <<5000, Tip, Woven, 3, <<1, 2, 3>>,
       << <<0, "difficulty", JsNum(6000)>> >> >>,
     <<99, Tip, Woven, 3, <<1, 2, 3>>, <<>> >>,
     <<100, Tip, Woven, 3, <<1, 2, 3>>,
       << <<0, "difficulty", JsNum(50)>> >> >>,
     Fresh(<< <<0, "difficulty", JsNum(100)>> >>),
     Fresh(<< <<0, "difficulty", JsUndefined>> >>),
     Fresh(<< <<0, "difficulty", JsNull>> >>),
     Fresh(<< <<0, "difficulty", JsFrac(1000)>> >>),
     Fresh(<< <<0, "difficulty", JsNaN>> >>),
     Fresh(<< <<0, "difficulty", JsStr(<<"1", "0", "0", "0">>)>> >>),
     Fresh(<< <<0, "difficulty", JsStr(<<"x">>)>> >>),
     Fresh(<< <<0, "from_hash", JsStr(Rep("A", HEX64_LENGTH))>> >>),
     Fresh(<< <<0, "anchor_hash", JsNum(5)>> >>),
     Fresh(<< <<1, "hash",
                JsArr(<<JsStr(ClientChainHash(1, 1000, Woven))>>)>> >>),
     Fresh(<< <<1, "prev", JsArr(<<JsStr(HashA)>>)>> >>),
     Fresh(<< <<2, "hash", JsStr(HashC)>> >>),
     Fresh(<< <<3, "nonce", JsStr(<<"n", "1">>)>> >>),
     <<1000, 0, Woven, 3, <<1, 2, 3>>, << <<2, "hash", JsStr(HashC)>> >> >>,
     <<1000, Tip, Woven, 10, <<1, 2>>, <<>> >>,
     <<1000, Tip, Woven, 2, <<1, 2>>, <<>> >>,
     <<1000, Tip, Woven, 3, <<1, 5, 9>>, <<>> >>,
     <<1000, 0, Woven, 3, <<1, 5, 9>>, << <<2, "hash", JsStr(HashC)>> >> >>,
     <<1000, 0, Woven, 3, <<1, 9>>, << <<2, "hash", JsStr(HashC)>> >> >>,
     <<1000, 0, Woven, 3, <<1, 9>>,
       << <<2, "hash", JsStr(HashC)>>, <<0, "difficulty", JsNum(50)>> >> >>
  >>

\* Proofs that fail the structural validation.
MalformedPlans ==
  << Fresh(<< <<0, "from_hash", JsStr(Rep("a", HEX64_LENGTH - 1))>> >>),
     Fresh(<< <<0, "to_hash", JsNum(5)>> >>),
     Fresh(<< <<0, "beats_computed", JsNum(0)>> >>),
     Fresh(<< <<0, "beats_computed", JsFrac(3)>> >>),
     Fresh(<< <<0, "anchor_index", JsNum(-1)>> >>),
     Fresh(<< <<0, "anchor_index", JsUndefined>> >>),
     Fresh(<< <<0, "anchor_hash", JsStr(<<"z">>)>> >>),
     Fresh(<< <<0, "spot_checks", JsArr(<<>>)>> >>),
     Fresh(<< <<0, "spot_checks", JsUndefined>> >>),
     Fresh(<< <<0, "spot_checks",
                JsArr(Rep(JsNull, PUBLIC_MAX_SPOT_CHECKS + 1))>> >>),
     Fresh(<< <<1, "index", JsNum(-1)>> >>),
     Fresh(<< <<2, "hash", JsStr(<<"a", "b">>)>> >>),
     Fresh(<< <<3, "prev", JsUndefined>> >>),
     <<1000, 0, Woven, 3, <<1, 9>>,
       << <<2, "hash", JsStr(HashC)>>, <<0, "difficulty", JsNum(50)>>,
          <<0, "to_hash", JsStr(<<>>)>> >> >> >>

ProofPlans == WellFormedPlans \o MalformedPlans

FreshProof == BuildProof(Fresh(<<>>))

BadJson == [t |-> "unparsable"]

JsonContentType == Some("application/json")

\* contentType?.includes('application/json')
ContentTypeIsJson(contentType) ==
  /\ contentType # None
  /\ contentType[1] \in {"application/json",
                          "application/json; charset=utf-8"}

ClientIp == "203.0.113.7"

Request(contentType, body) ==
  [ip |-> ClientIp, contentType |-> contentType, body |-> body]

\* The requests the client sends, by number.
\* The requests the client sends, by number: every plan as a flat JSON
\* body, then the wrapped form, a null body, text that is no JSON, and three
\* more content types.
WorkProofRequests ==
  [k \in 1..Len(ProofPlans) |->
     Request(JsonContentType, BuildProof(ProofPlans[k]))]
    \o << Request(JsonContentType, JsObj([work_proof |-> FreshProof])),
          Request(JsonContentType, JsNull),
          Request(JsonContentType, BadJson),
          Request(None, FreshProof),
          Request(Some("text/plain"), FreshProof),
          Request(Some("application/json; charset=utf-8"), FreshProof) >>

\* The chain of anchors the cron handler publishes, one every interval.
RECURSIVE PublishedAnchor(_)
PublishedAnchor(k) ==
  CHOOSE anchor \in
    {createGlobalAnchor(prev, DEFAULT_DIFFICULTY, 0, Some("E1"),
                        k * GLOBAL_ANCHOR_INTERVAL_SEC * 1000) :
       prev \in {IF k = 0 THEN NULL ELSE PublishedAnchor(k - 1)}} : TRUE

PublishedLedger ==
  [k \in 1..(PublishedAnchors + MaxLandings) |->
     CHOOSE tx \in {[signature |-> MaxInvocations + k,
                     memo |-> RpcMemo(AnchorMemoJson(anchor))] :
                      anchor \in {PublishedAnchor(k - 1)}} : TRUE]

\* Date.now() when the endpoint starts serving.
WorkProofEpoch == (PublishedAnchors - 1) * GLOBAL_ANCHOR_INTERVAL_SEC * 1000

\* ------------------------------------------ work-proof: the request served

\* req is the number of the request served, 0 before the first.
IdleWorkProof ==
  [pc |-> "idle", req |-> 0, response |-> NoResponse,
   signed |-> <<>>, verified |-> {}, read |-> "none",
   currentAnchor |-> NULL, tip |-> NULL]

NoEntries == [ip \in {ClientIp} |-> NULL]

WpIdle ==
  /\ limiterMap = NoEntries
  /\ anchorCache = NULL
  /\ wp = IdleWorkProof
  /\ served = 0


\* --------------------------------------------- lib/beat.ts: chains of beats

MAX_DIFFICULTY == 1000000

\* 1e999 in the text of a body parses to Infinity.
JsInf == [t |-> "number", k |-> "inf", n |-> 0]
JsBool(b) == [t |-> "boolean", b |-> b]

\* !!v
Truthy(v) ==
  CASE v.t \in {"undefined", "null"} -> FALSE
    [] v.t = "number" ->
         IF v.k = "int" THEN v.n # 0 ELSE v.k \in {"frac", "inf"}
    [] v.t = "string" -> v.s # <<>>
    [] v.t = "boolean" -> v.b
    [] OTHER -> TRUE

\* Number.isFinite(v)
NumberIsFinite(v) == v.t = "number" /\ v.k \in {"int", "frac"}

\* Twice a finite number, which is an integer.
Twice(v) == 2 * v.n + (IF v.k = "frac" THEN 1 ELSE 0)

\* Math.min, Math.max and Math.floor on finite numbers.
MathMin(a, b) == IF Twice(b) < Twice(a) THEN b ELSE a
MathMax(a, b) == IF Twice(b) > Twice(a) THEN b ELSE a
MathFloor(v) == JsNum(v.n)

Max(a, b) == IF a > b THEN a ELSE b

\* The passes of `for (let i = 0; i < difficulty; i++)`.
Iterations(difficulty) ==
  IF Twice(difficulty) <= 0 THEN 0
  ELSE IF difficulty.k = "frac" THEN difficulty.n + 1
  ELSE difficulty.n

\* computeBeats: count beats from startHash, the first with index
\* startIndex.
RECURSIVE computeBeats(_, _, _, _, _)
computeBeats(startHash, startIndex, count, difficulty, anchorHash) ==
  IF count = 0 THEN <<>>
  ELSE CHOOSE beats \in
         {Append(before,
                 computeBeat(IF before = <<>> THEN startHash
                             ELSE before[Len(before)].hash,
                             startIndex + count - 1, difficulty, None,
                             anchorHash)) :
            before \in {computeBeats(startHash, startIndex, count - 1,
                                     difficulty, anchorHash)}} : TRUE

\* A beat as it arrives in a body: JSON.stringify leaves out the fields
\* that are undefined.
BeatJson(beat) ==
  LET required == [index |-> JsNum(beat.index), hash |-> JsStr(beat.hash),
                   prev |-> JsStr(beat.prev)]
      nonced == IF beat.nonce = None THEN required
                ELSE With(required, "nonce", JsStr(beat.nonce[1]))
  IN  JsObj(IF beat.anchor_hash = None THEN nonced
            ELSE With(nonced, "anchor_hash", JsStr(beat.anchor_hash[1])))

\* verifyBeat(b, difficulty) on a beat b read from a body: prev enters the
\* seed through a template literal, nonce through `nonce || ''`, and === is
\* false for a hash that is no string.
VerifiesPosted(b, difficulty) ==
  /\ Field(b, "hash").t = "string"
  /\ verifyBeat(
       [index |-> Field(b, "index").n,
        hash |-> Field(b, "hash").s,
        prev |-> StringOf(Field(b, "prev")),
        nonce |-> IF Field(b, "nonce").t = "string"
                    THEN Some(Field(b, "nonce").s) ELSE None,
        anchor_hash |-> IF Field(b, "anchor_hash").t = "string"
                          THEN Some(Field(b, "anchor_hash").s) ELSE None],
       Iterations(difficulty))

\* Set.prototype.add on a Set, kept as the sequence of its members in
\* insertion order.
SetAdd(s, x) == IF x \in Range(s) THEN s ELSE Append(s, x)

\* `beats[k]?.hash || ''`
HashOrEmpty(b) ==
  IF Truthy(Field(b, "hash")) THEN StringOf(Field(b, "hash")) ELSE <<>>

\* The first eight hex digits of a SHA-256 digest, as the number parseInt
\* reads from them, are a value below DigestModulus.  sha256 sends a digest
\* to the next one of a single cycle through all of these values, so the
\* loop that draws positions from successive digests meets every position.
DigestModulus == 32
DigestStep == 13

HashCode(h) ==
  IF Len(h) < 4 THEN Len(h)
  ELSE CharRank(h[1]) + 2 * CharRank(h[2]) + 3 * CharRank(h[3])
         + 5 * CharRank(h[4]) + 9 * CharRank(h[Len(h)])

\* `${beats.length}:${difficulty}:${first}:${last}`
SampleMaterial_SecondBeat(beats, difficulty, first, last) ==
  (Len(beats) + Twice(difficulty) + HashCode(first) + 7 * HashCode(last)
     + 11 * HashCode(HashOrEmpty(beats[IF Len(beats) > 1 THEN 2 ELSE 1])))
    % DigestModulus

SampleMaterial(beats, difficulty, first, last) ==
  (Len(beats) + Twice(difficulty) + HashCode(first) + 7 * HashCode(last))
    % DigestModulus

\* createHash('sha256').update(material, 'utf8').digest('hex')
sha256(material) == (material + DigestStep) % DigestModulus

\* while (toCheck.size < wanted) { ... }
RECURSIVE DrawPositions(_, _, _, _)
DrawPositions(toCheck, material, wanted, n) ==
  IF ~(Len(toCheck) < wanted) THEN toCheck
  ELSE CHOOSE drawn \in
         {DrawPositions(added, digest, wanted, n) :
            digest \in {sha256(material)},
            added \in {SetAdd(toCheck, sha256(material) % n)}} : TRUE

\* verifyBeatChain, the positions it collects in toCheck, in the order they
\* are added.  Positions count from 0; beats[p + 1] is the beat at p.
SampledPositions(beats, difficulty, spotCheckCount) ==
  LET n == Len(beats)
      ends == SetAdd(<<0>>, n - 1)
      wanted == Max(0, Min(spotCheckCount, n))
      half == IF n >= 4 THEN SetAdd(ends, n \div 2) ELSE ends
      spaced == IF n >= 8
                  THEN SetAdd(SetAdd(half, n \div 4), (3 * n) \div 4)
                  ELSE half
  IN  IF wanted > Len(ends)
        THEN DrawPositions(spaced,
               SampleMaterial(beats, difficulty, HashOrEmpty(beats[1]),
                              HashOrEmpty(beats[n])),
               wanted, n)
        ELSE ends

\* The positions i whose beat does not name the hash of the beat before.
BrokenLinks(beats) ==
  LET Broken(i) == Field(beats[i + 1], "prev") # Field(beats[i], "hash")
  IN  SelectSeq([i \in 1..(Len(beats) - 1) |-> i], Broken)

\* A chain verifier that reports the sampled beats only.
ChainFailures_SamplesOnly(beats, difficulty, toCheck) ==
  LET Fails(p) == ~VerifiesPosted(beats[p + 1], difficulty)
      unverified == SelectSeq(toCheck, Fails)
  IN  [k \in 1..Len(unverified) |-> Field(beats[unverified[k] + 1], "index")]

\* failed: the positions of the broken links, then the index fields of the
\* sampled beats that do not verify.
ChainFailures(beats, difficulty, toCheck) ==
  LET Fails(p) == ~VerifiesPosted(beats[p + 1], difficulty)
      links == BrokenLinks(beats)
      unverified == SelectSeq(toCheck, Fails)
  IN  [k \in 1..Len(links) |-> JsNum(links[k])]
        \o [k \in 1..Len(unverified) |->
              Field(beats[unverified[k] + 1], "index")]

\* verifyBeatChain on an array of beats read from a body.
verifyBeatChain(beats, difficulty, spotCheckCount) ==
  IF Len(beats) = 0 THEN [valid |-> TRUE, checked |-> 0, failed |-> <<>>]
  ELSE CHOOSE result \in
         {[valid |-> failed = <<>>,
           checked |-> Len(toCheck) + Len(beats) - 1,
           failed |-> failed] :
            toCheck \in {SampledPositions(beats, difficulty, spotCheckCount)},
            failed \in {ChainFailures(beats, difficulty,
                          SampledPositions(beats, difficulty,
                                           spotCheckCount))}} : TRUE

\* A loop that takes the anchor hash from the spot check.
CheckReason_OwnAnchor(check, anchorHash, difficulty) ==
  IF \/ ~Truthy(Field(check, "hash"))
     \/ Field(check, "hash").t # "string"
     \/ Len(Field(check, "hash").s) # HEX64_LENGTH
    THEN "Invalid hash"
  ELSE IF ~Truthy(Field(check, "prev")) THEN "missing prev hash"
  ELSE IF ~VerifiesPosted(check, difficulty)
    THEN "Hash-chain verification failed"
  ELSE ""

\* What the loop of verifyCheckinProof answers on one spot check: the
\* reason it returns, or "" when the spot check verifies.
CheckReason(check, anchorHash, difficulty) ==
  IF \/ ~Truthy(Field(check, "hash"))
     \/ Field(check, "hash").t # "string"
     \/ Len(Field(check, "hash").s) # HEX64_LENGTH
    THEN "Invalid hash"
  ELSE IF ~Truthy(Field(check, "prev")) THEN "missing prev hash"
  ELSE IF ~VerifiesPosted(
            JsObj(IF anchorHash.t = "string"
                    THEN With(check.o, "anchor_hash", anchorHash)
                    ELSE Without(check.o, "anchor_hash")),
            difficulty)
    THEN "Hash-chain verification failed"
  ELSE ""

\* verifyCheckinProof on a proof whose from_beat and to_beat are integers.
verifyCheckinProof(proof, difficulty) ==
  LET from_beat == Field(proof, "from_beat").n
      to_beat == Field(proof, "to_beat").n
      beats_computed == Field(proof, "beats_computed")
      spot_checks == IF Field(proof, "spot_checks").t = "array"
                       THEN Field(proof, "spot_checks").a ELSE <<>>
      minRequired == Min(3, beats_computed.n)
      hasEndpoint == \E k \in 1..Len(spot_checks) :
                       Field(spot_checks[k], "index") = JsNum(to_beat)
      unverified == {k \in 1..Len(spot_checks) :
                       CheckReason(spot_checks[k],
                                   Field(proof, "anchor_hash"),
                                   difficulty) # ""}
  IN  IF beats_computed # JsNum(to_beat - from_beat)
        THEN [valid |-> FALSE, reason |-> "Beat count mismatch"]
      ELSE IF to_beat <= from_beat
        THEN [valid |-> FALSE, reason |-> "Beat range must be forward-moving"]
      ELSE IF Len(spot_checks) < minRequired
        THEN [valid |-> FALSE, reason |-> "Insufficient spot checks"]
      ELSE IF Field(proof, "spot_checks").t = "array" /\ ~hasEndpoint
        THEN [valid |-> FALSE,
              reason |-> "Spot checks must include to_beat index"]
      ELSE IF unverified # {}
        THEN [valid |-> FALSE,
              reason |-> CheckReason(spot_checks[MinOf(unverified)],
                                     Field(proof, "anchor_hash"), difficulty)]
      ELSE [valid |-> TRUE, spot_checks_verified |-> Len(spot_checks)]

\* ---------------------------------------------- app/api/v1/beat/verify/route

VerifyMaxRequests == 10
VerifyWindowMs == 60000
MaxInlineChain == 1000
DefaultSpotChecks == 3

ModeBeat == <<"b", "e", "a", "t">>
ModeChain == <<"c", "h", "a", "i", "n">>
ModeProof == <<"p", "r", "o", "o", "f">>

\* A verify route that leaves out the public cap.
VerifyDifficulty_NoPublicCap(body) ==
  LET requestedDifficultyRaw ==
        ToNumber(Coalesce(Field(body, "difficulty"),
                          JsNum(DEFAULT_DIFFICULTY)))
      requestedDifficulty ==
        IF NumberIsFinite(requestedDifficultyRaw)
          THEN requestedDifficultyRaw ELSE JsNum(DEFAULT_DIFFICULTY)
  IN  MathMin(MathMax(requestedDifficulty, JsNum(MIN_DIFFICULTY)),
              JsNum(MAX_DIFFICULTY))

\* difficulty: the requested value, 1000 when none or no finite one is
\* sent, brought into the band.
VerifyDifficulty(body) ==
  LET requestedDifficultyRaw ==
        ToNumber(Coalesce(Field(body, "difficulty"),
                          JsNum(DEFAULT_DIFFICULTY)))
      requestedDifficulty ==
        IF NumberIsFinite(requestedDifficultyRaw)
          THEN requestedDifficultyRaw ELSE JsNum(DEFAULT_DIFFICULTY)
  IN  MathMin(MathMax(requestedDifficulty, JsNum(MIN_DIFFICULTY)),
              MathMin(JsNum(MAX_DIFFICULTY), JsNum(PUBLIC_MAX_DIFFICULTY)))

\* c * v for an integer c and a finite number v.
Times(c, v) ==
  IF v.k = "int" THEN JsNum(c * v.n)
  ELSE IF c % 2 = 0 THEN JsNum(c * v.n + c \div 2)
  ELSE JsFrac(c * v.n + c \div 2)

\* What POST hands back: the response, the difficulties it handed to a
\* verifier, and the positions verifyBeatChain recomputed.
Handled(response, recomputedAt, sampled) ==
  [response |-> response, recomputedAt |-> recomputedAt, sampled |-> sampled]

Unverified(response) == Handled(response, {}, <<>>)

\* A beat mode that recomputes at the default difficulty.
BeatMode_DefaultDifficulty(body, difficulty) ==
  LET beat == Field(body, "beat")
  IN  IF \/ ~Truthy(beat)
         \/ Field(beat, "index").t # "number"
         \/ ~Truthy(Field(beat, "hash"))
         \/ ~Truthy(Field(beat, "prev"))
        THEN Unverified(JsonResponse(400,
               "Missing beat fields: index, hash, prev required"))
      ELSE Handled([status |-> 200, ok |-> TRUE, mode |-> "beat",
                    valid |-> VerifiesPosted(beat, JsNum(DEFAULT_DIFFICULTY)),
                    beat_index |-> Field(beat, "index"),
                    difficulty |-> difficulty,
                    hash_operations |-> difficulty],
                   {difficulty}, <<>>)

\* mode === 'beat'
BeatMode(body, difficulty) ==
  LET beat == Field(body, "beat")
  IN  IF \/ ~Truthy(beat)
         \/ Field(beat, "index").t # "number"
         \/ ~Truthy(Field(beat, "hash"))
         \/ ~Truthy(Field(beat, "prev"))
        THEN Unverified(JsonResponse(400,
               "Missing beat fields: index, hash, prev required"))
      ELSE Handled([status |-> 200, ok |-> TRUE, mode |-> "beat",
                    valid |-> VerifiesPosted(beat, difficulty),
                    beat_index |-> Field(beat, "index"),
                    difficulty |-> difficulty,
                    hash_operations |-> difficulty],
                   {difficulty}, <<>>)

\* spotChecks of the chain mode.
ChainSpotChecks(body) ==
  LET requestedSpotChecks ==
        ToNumber(Coalesce(Field(body, "spot_checks"),
                          JsNum(DefaultSpotChecks)))
  IN  Min(Max(IF NumberIsFinite(requestedSpotChecks)
                THEN MathFloor(requestedSpotChecks).n
                ELSE DefaultSpotChecks, 0),
          PUBLIC_MAX_SPOT_CHECKS)

\* mode === 'chain'
ChainMode(body, difficulty) ==
  LET beats == Field(body, "beats")
      spotChecks == ChainSpotChecks(body)
  IN  IF beats.t # "array" \/ Len(beats.a) = 0
        THEN Unverified(JsonResponse(400, "Missing or empty beats array"))
      ELSE IF Len(beats.a) > MaxInlineChain
        THEN Unverified(JsonResponse(400,
               "Chain too long for inline verification"))
      ELSE CHOOSE handled \in
             {Handled([status |-> 200, ok |-> TRUE, mode |-> "chain",
                       valid |-> result.valid,
                       chain_length |-> Len(beats.a),
                       beats_checked |-> result.checked,
                       failed_indices |-> result.failed,
                       difficulty |-> difficulty,
                       total_hash_operations |->
                         Times(result.checked, difficulty)],
                      {difficulty},
                      SampledPositions(beats.a, difficulty, spotChecks)) :
                result \in {verifyBeatChain(beats.a, difficulty,
                                            spotChecks)}} : TRUE

\* mode === 'proof'
ProofMode(body, difficulty) ==
  LET proof == Field(body, "proof")
      providedSpotChecks ==
        IF Field(proof, "spot_checks").t = "array"
          THEN Len(Field(proof, "spot_checks").a) ELSE 0
      from_beat == Field(proof, "from_beat").n
      to_beat == Field(proof, "to_beat").n
  IN  IF \/ ~Truthy(proof)
         \/ Field(proof, "from_beat").t # "number"
         \/ ~Truthy(Field(proof, "to_beat"))
         \/ ~Truthy(Field(proof, "from_hash"))
         \/ ~Truthy(Field(proof, "to_hash"))
        THEN Unverified(JsonResponse(400, "Missing proof fields"))
      ELSE IF providedSpotChecks > PUBLIC_MAX_SPOT_CHECKS
        THEN Unverified(JsonResponse(400, "Too many spot checks"))
      ELSE IF to_beat <= from_beat
        THEN Unverified([status |-> 200, ok |-> TRUE, mode |-> "proof",
                         valid |-> FALSE,
                         reason |-> "Beat range must be forward-moving"])
      ELSE IF /\ Field(proof, "beats_computed") # JsUndefined
              /\ Field(proof, "beats_computed") # JsNum(to_beat - from_beat)
        THEN Unverified([status |-> 200, ok |-> TRUE, mode |-> "proof",
                         valid |-> FALSE, reason |-> "Beat count mismatch"])
      ELSE CHOOSE handled \in
             {Handled(
                LET answer == [status |-> 200, ok |-> TRUE, mode |-> "proof",
                               valid |-> result.valid,
                               from_beat |-> from_beat,
                               to_beat |-> to_beat,
                               beats_claimed |-> to_beat - from_beat,
                               spot_checks_verified |->
                                 IF Has(result, "spot_checks_verified")
                                   THEN result.spot_checks_verified ELSE 0,
                               difficulty |-> difficulty]
                IN  IF Has(result, "reason")
                      THEN With(answer, "reason", result.reason) ELSE answer,
                {difficulty}, <<>>) :
                result \in {verifyCheckinProof(proof, difficulty)}} : TRUE

\* POST after the rate limit, on the body of the request: a body that does
\* not parse, and null, throw into the catch.
VerifyAnswer(body) ==
  IF body = BadJson \/ body.t = "null"
    THEN Unverified(JsonResponse(500, "err.message"))
  ELSE LET mode == IF Truthy(Field(body, "mode")) THEN Field(body, "mode")
                   ELSE JsStr(ModeBeat)
           difficulty == VerifyDifficulty(body)
       IN  IF mode = JsStr(ModeBeat) THEN BeatMode(body, difficulty)
           ELSE IF mode = JsStr(ModeChain) THEN ChainMode(body, difficulty)
           ELSE IF mode = JsStr(ModeProof) THEN ProofMode(body, difficulty)
           ELSE Unverified(JsonResponse(400, "Unknown mode"))

\* ------------------------------------ verify: the SHA-256 calls of a request

\* computeBeat: one createHash for the seed and one for every pass of the
\* loop.
BeatOperations(difficulty) == 1 + Iterations(difficulty)

\* The passes of `while (toCheck.size < wanted)`, one createHash each.
RECURSIVE DrawPasses(_, _, _, _)
DrawPasses(toCheck, material, wanted, n) ==
  IF ~(Len(toCheck) < wanted) THEN 0
  ELSE CHOOSE passes \in
         {1 + DrawPasses(added, digest, wanted, n) :
            digest \in {sha256(material)},
            added \in {SetAdd(toCheck, sha256(material) % n)}} : TRUE

\* verifyBeatChain: the createHash calls of the draws and of verifyBeat on
\* every position of toCheck.
ChainOperations(beats, difficulty, spotCheckCount) ==
  LET n == Len(beats)
      ends == SetAdd(<<0>>, n - 1)
      wanted == Max(0, Min(spotCheckCount, n))
      half == IF n >= 4 THEN SetAdd(ends, n \div 2) ELSE ends
      spaced == IF n >= 8
                  THEN SetAdd(SetAdd(half, n \div 4), (3 * n) \div 4)
                  ELSE half
      draws == IF wanted > Len(ends)
                 THEN DrawPasses(spaced,
                        SampleMaterial(beats, difficulty,
                                       HashOrEmpty(beats[1]),
                                       HashOrEmpty(beats[n])),
                        wanted, n)
                 ELSE 0
  IN  draws + Len(SampledPositions(beats, difficulty, spotCheckCount))
                * BeatOperations(difficulty)

\* verifyCheckinProof: verifyBeat runs on every spot check up to the first
\* one the loop returns on, and on that one when it has a hash and a prev.
ProofOperations(proof, difficulty) ==
  LET spot_checks == IF Field(proof, "spot_checks").t = "array"
                       THEN Field(proof, "spot_checks").a ELSE <<>>
      reasons == [k \in 1..Len(spot_checks) |->
                    CheckReason(spot_checks[k], Field(proof, "anchor_hash"),
                                difficulty)]
      unverified == {k \in 1..Len(spot_checks) : reasons[k] # ""}
      recomputed == IF unverified = {} THEN Len(spot_checks)
                    ELSE IF reasons[MinOf(unverified)]
                              = "Hash-chain verification failed"
                      THEN MinOf(unverified)
                    ELSE MinOf(unverified) - 1
      result == verifyCheckinProof(proof, difficulty)
  IN  IF \/ result.valid
         \/ result.reason \in {"Invalid hash", "missing prev hash",
                               "Hash-chain verification failed"}
        THEN recomputed * BeatOperations(difficulty)
        ELSE 0

\* The createHash calls POST makes on a body: none on a request that is
\* answered before a verifier runs.
HashOperations(body) ==
  IF VerifyAnswer(body).recomputedAt = {} THEN 0
  ELSE LET mode == IF Truthy(Field(body, "mode")) THEN Field(body, "mode")
                   ELSE JsStr(ModeBeat)
           difficulty == VerifyDifficulty(body)
       IN  IF mode = JsStr(ModeBeat) THEN BeatOperations(difficulty)
           ELSE IF mode = JsStr(ModeChain)
             THEN ChainOperations(Field(body, "beats").a, difficulty,
                                  ChainSpotChecks(body))
           ELSE ProofOperations(Field(body, "proof"), difficulty)

\* ------------------------------------------------ verify: the requests sent

ZeroHash == Rep("0", HEX64_LENGTH)

\* One nibble of a hash changed.
AlterNibble(h, p) == [h EXCEPT ![p] = IF h[p] = "0" THEN "1" ELSE "0"]

AlterHash(b, p) == SetField(b, "hash", JsStr(AlterNibble(b.o.hash.s, p)))

\* A body with the fields that are not undefined.
RECURSIVE BodyOf(_)
BodyOf(fields) ==
  IF fields = <<>> THEN JsObj(<<>>)
  ELSE SetField(BodyOf(Tail(fields)), Head(fields)[1], Head(fields)[2])

\* A plan <<d, difficulty, mode, edit>>: the beat computeBeat gives from
\* "00" x 32 at index 1 and difficulty d, edited, and posted with the given
\* difficulty and mode fields.
BeatBody(plan) ==
  LET beat == BeatJson(computeBeat(ZeroHash, 1, Iterations(plan[1]), None,
                                   None))
      posted == CASE plan[4] = "hash1" -> AlterHash(beat, 1)
                  [] plan[4] = "hash33" -> AlterHash(beat, 33)
                  [] plan[4] = "hash64" -> AlterHash(beat, HEX64_LENGTH)
                  [] plan[4] = "nohash" -> SetField(beat, "hash", JsUndefined)
                  [] plan[4] = "noprev" -> SetField(beat, "prev", JsUndefined)
                  [] plan[4] = "index" ->
                       SetField(beat, "index", JsStr(<<"1">>))
                  [] plan[4] = "nobeat" -> JsUndefined
                  [] OTHER -> beat
  IN  BodyOf(<< <<"beat", posted>>, <<"difficulty", plan[2]>>,
                <<"mode", plan[3]>> >>)

SameDifficulty(d, edit) == <<d, d, JsStr(ModeBeat), edit>>

BeatPlans ==
  << SameDifficulty(JsNum(10), "none"),
     SameDifficulty(JsNum(10), "hash64"),
     SameDifficulty(JsNum(99), "none"),
     SameDifficulty(JsNum(100), "none"),
     SameDifficulty(JsNum(100), "hash1"),
     SameDifficulty(JsNum(100), "hash33"),
     SameDifficulty(JsNum(100), "hash64"),
     SameDifficulty(JsFrac(150), "none"),
     SameDifficulty(JsFrac(150), "hash64"),
     SameDifficulty(JsNum(1000), "none"),
     SameDifficulty(JsNum(1000), "hash1"),
     SameDifficulty(JsNum(5000), "none"),
     SameDifficulty(JsNum(5000), "hash33"),
     SameDifficulty(JsNum(5001), "none"),
     SameDifficulty(JsNum(6000), "none"),
     SameDifficulty(JsNum(1000), "nohash"),
     SameDifficulty(JsNum(1000), "noprev"),
     SameDifficulty(JsNum(1000), "index"),
     SameDifficulty(JsNum(1000), "nobeat"),
     <<JsNum(1000), JsUndefined, JsUndefined, "none">>,
     <<JsNum(1000), JsUndefined, JsStr(ModeBeat), "hash64">>,
     <<JsNum(1000), JsNull, JsStr(ModeBeat), "none">>,
     <<JsNum(1000), JsStr(<<"a", "b", "c">>), JsStr(ModeBeat), "none">>,
     <<JsNum(1000), JsInf, JsStr(ModeBeat), "none">>,
     <<JsNum(1000), JsObj(<<>>), JsStr(ModeBeat), "none">>,
     <<JsNum(250), JsStr(<<"2", "5", "0">>), JsStr(ModeBeat), "none">>,
     <<JsNum(100), JsStr(<<>>), JsUndefined, "none">>,
     <<JsNum(100), JsBool(TRUE), JsStr(ModeBeat), "none">>,
     <<JsNum(100), JsNum(0), JsStr(ModeBeat), "none">>,
     <<JsNum(100), JsNum(-5), JsStr(ModeBeat), "none">>,
     <<JsNum(100), JsFrac(99), JsStr(ModeBeat), "none">>,
     <<JsNum(5000), JsFrac(5000), JsStr(ModeBeat), "none">>,
     <<JsNum(5000), JsNum(MAX_DIFFICULTY + 1), JsStr(ModeBeat), "none">>,
     <<JsNum(1000), JsNum(100), JsStr(ModeBeat), "none">>,
     <<JsNum(1000), JsNum(1000), JsStr(<<"b", "o", "g", "u", "s">>), "none">>,
     <<JsNum(1000), JsNum(1000), JsNum(5), "none">> >>

\* An edit <<kind, p>> of the chain at position p: "prev" names another
\* hash before, "hash" changes the first nibble of the hash, "forge" does so
\* and names the changed hash in the next beat, "index" changes the index
\* field.
EditChain(beats, edit) ==
  LET k == edit[2] + 1
  IN  CASE edit[1] = "prev" ->
             [beats EXCEPT ![k] = SetField(@, "prev", JsStr(HashF))]
        [] edit[1] = "hash" ->
             [beats EXCEPT ![k] = AlterHash(@, 1)]
        [] edit[1] = "forge" ->
             [beats EXCEPT
                ![k] = AlterHash(@, 1),
                ![k + 1] = SetField(@, "prev", AlterHash(beats[k], 1).o.hash)]
        [] edit[1] = "index" ->
             [beats EXCEPT ![k] = SetField(@, "index", JsNum(77))]

RECURSIVE EditedChain(_, _)
EditedChain(beats, edits) ==
  IF edits = <<>> THEN beats
  ELSE CHOOSE chain \in
         {EditedChain(edited, Tail(edits)) :
            edited \in {EditChain(beats, Head(edits))}} : TRUE

\* A plan <<n, startIndex, d, difficulty, spot_checks, edits>>: the chain
\* computeBeats gives from "00" x 32, edited, and posted with the given
\* difficulty and spot_checks fields.
ChainBody(plan) ==
  LET chain == computeBeats(ZeroHash, plan[2], plan[1], Iterations(plan[3]),
                            None)
      beats == [k \in 1..Len(chain) |-> BeatJson(chain[k])]
  IN  BodyOf(<< <<"mode", JsStr(ModeChain)>>,
                <<"beats", JsArr(EditedChain(beats, plan[6]))>>,
                <<"difficulty", plan[4]>>,
                <<"spot_checks", plan[5]>> >>)

\* An honest chain of n beats at difficulty 1000, with edits.
Chain(n, spot_checks, edits) ==
  <<n, 1, JsNum(1000), JsNum(1000), spot_checks, edits>>

ChainPlans ==
  << Chain(1, JsUndefined, <<>>),
     Chain(1, JsNum(0), <<>>),
     Chain(2, JsUndefined, <<>>),
     Chain(2, JsUndefined, << <<"prev", 1>> >>),
     Chain(3, JsUndefined, <<>>),
     Chain(3, JsNum(2), << <<"forge", 1>> >>),
     Chain(3, JsNum(3), << <<"forge", 1>> >>),
     Chain(4, JsNum(0), <<>>),
     Chain(4, JsNum(2), <<>>),
     Chain(4, JsUndefined, <<>>),
     Chain(4, JsNum(4), <<>>),
     Chain(5, JsUndefined, <<>>),
     Chain(5, JsNum(5), <<>>),
     Chain(5, JsNum(5), << <<"forge", 1>> >>),
     Chain(5, JsNum(4), <<>>),
     Chain(5, JsNum(4), << <<"forge", 1>> >>),
     Chain(5, JsUndefined, << <<"prev", 3>> >>),
     Chain(5, JsNum(5), << <<"prev", 3>> >>),
     Chain(5, JsNum(2), << <<"prev", 3>> >>),
     Chain(5, JsUndefined, << <<"prev", 1>>, <<"prev", 3>> >>),
     Chain(5, JsUndefined, << <<"hash", 4>> >>),
     Chain(5, JsUndefined, << <<"hash", 0>> >>),
     Chain(5, JsNum(2), << <<"forge", 2>> >>),
     Chain(5, JsUndefined, << <<"index", 2>> >>),
     Chain(5, JsNum(2), << <<"index", 2>> >>),
     Chain(8, JsUndefined, <<>>),
     Chain(8, JsNum(0), <<>>),
     Chain(8, JsNum(1), <<>>),
     Chain(8, JsNum(2), <<>>),
     Chain(8, JsNum(2), << <<"forge", 4>> >>),
     Chain(8, JsUndefined, << <<"forge", 4>> >>),
     Chain(8, JsNum(5), <<>>),
     Chain(8, JsNum(6), <<>>),
     Chain(8, JsNum(6), << <<"forge", 1>> >>),
     Chain(8, JsNum(8), <<>>),
     Chain(8, JsNum(25), << <<"forge", 5>> >>),
     Chain(8, JsUndefined, << <<"prev", 3>> >>),
     Chain(9, JsUndefined, <<>>),
     Chain(9, JsNum(7), <<>>),
     Chain(9, JsNum(7), << <<"forge", 7>> >>),
     Chain(9, JsNum(30), <<>>),
     Chain(9, JsNum(-1), <<>>),
     Chain(9, JsFrac(6), <<>>),
     Chain(9, JsStr(<<"a">>), <<>>),
     Chain(9, JsNull, <<>>),
     <<5, 0, JsNum(1000), JsNum(1000), JsUndefined, << <<"prev", 3>> >> >>,
     <<5, 1, JsNum(100), JsNum(100), JsNum(5), <<>> >>,
     <<5, 1, JsNum(100), JsNum(100), JsNum(5), << <<"forge", 1>> >> >>,
     <<5, 1, JsNum(10), JsNum(10), JsUndefined, <<>> >>,
     <<5, 1, JsNum(6000), JsNum(6000), JsUndefined, <<>> >>,
     <<5, 1, JsNum(1000), JsUndefined, JsUndefined, <<>> >>,
     <<5, 1, JsFrac(150), JsFrac(150), JsNum(5), <<>> >>,
     <<5, 1, JsNum(1000), JsStr(<<"x">>), JsNum(5), <<>> >>,
     <<PUBLIC_MAX_SPOT_CHECKS, 1, JsNum(PUBLIC_MAX_DIFFICULTY),
       JsNum(PUBLIC_MAX_DIFFICULTY), JsNum(PUBLIC_MAX_SPOT_CHECKS), <<>> >>,
     <<PUBLIC_MAX_SPOT_CHECKS + 5, 1, JsNum(PUBLIC_MAX_DIFFICULTY),
       JsNum(PUBLIC_MAX_DIFFICULTY + 1000), JsNum(PUBLIC_MAX_SPOT_CHECKS + 5),
       <<>> >> >>

\* A plan <<d, from_beat, to_beat, idxs, difficulty, edits>>: the check-in
\* proof of a client that computed the beats from_beat + 1 .. to_beat at
\* difficulty d and discloses the beats idxs, edited as a work proof is,
\* and posted with the given difficulty field.
CheckinBody(plan) ==
  LET proof ==
        JsObj([from_beat |-> JsNum(plan[2]),
               to_beat |-> JsNum(plan[3]),
               from_hash |-> JsStr(ClientChainHash(plan[2], plan[1], None)),
               to_hash |-> JsStr(ClientChainHash(plan[3], plan[1], None)),
               beats_computed |-> JsNum(plan[3] - plan[2]),
               spot_checks |->
                 JsArr([k \in 1..Len(plan[4]) |->
                          SpotCheck(plan[4][k], plan[1], None)])])
  IN  BodyOf(<< <<"mode", JsStr(ModeProof)>>,
                <<"proof", Edited(proof, plan[6])>>,
                <<"difficulty", plan[5]>> >>)

Checkin(edits) == <<1000, 0, 3, <<1, 2, 3>>, JsUndefined, edits>>

CheckinPlans ==
  << Checkin(<<>>),
     <<100, 0, 3, <<1, 2, 3>>, JsNum(100), <<>> >>,
     <<10, 0, 3, <<1, 2, 3>>, JsNum(10), <<>> >>,
     <<5000, 1, 3, <<2, 3>>, JsNum(6000), <<>> >>,
     <<1000, 0, 3, <<3>>, JsNum(1000), <<>> >>,
     <<1000, 0, 3, <<1, 2, 1>>, JsNum(1000), <<>> >>,
     <<1000, 0, 3, [k \in 1..(PUBLIC_MAX_SPOT_CHECKS + 1) |-> 1],
       JsNum(1000), <<>> >>,
     Checkin(<< <<0, "from_beat", JsNum(5)>> >>),
     Checkin(<< <<0, "beats_computed", JsNum(7)>> >>),
     Checkin(<< <<0, "beats_computed", JsUndefined>> >>),
     Checkin(<< <<0, "from_hash", JsUndefined>> >>),
     Checkin(<< <<0, "to_beat", JsNum(0)>> >>),
     Checkin(<< <<0, "spot_checks", JsUndefined>> >>),
     Checkin(<< <<2, "hash", JsStr(HashC)>> >>),
     Checkin(<< <<2, "prev", JsUndefined>> >>),
     Checkin(<< <<1, "hash", JsStr(<<"a", "b">>)>> >>),
     <<PUBLIC_MAX_DIFFICULTY, 0, PUBLIC_MAX_SPOT_CHECKS,
       [k \in 1..PUBLIC_MAX_SPOT_CHECKS |-> k],
       JsNum(PUBLIC_MAX_DIFFICULTY), <<>> >>,
     <<1000, 0, 3, <<1>>, JsNum(1000), <<>> >>,
     <<1000, 0, 5, <<1, 2>>, JsNum(1000), <<>> >>,
     <<1000, 0, 5, <<4, 5>>, JsNum(1000), <<>> >>,
     <<1000, 0, 5, <<1, 2, 4>>, JsNum(1000), <<>> >>,
     <<1000, 0, 5, <<1, 3, 5>>, JsNum(1000), <<>> >>,
     <<1000, 0, 2, <<1, 2>>, JsNum(1000), <<>> >>,
     <<1000, 0, 2, <<2>>, JsNum(1000), <<>> >>,
     <<1000, 0, 2, <<1, 1>>, JsNum(1000), <<>> >>,
     <<1000, 4, 5, <<5>>, JsNum(1000), <<>> >>,
     <<1000, 4, 5, <<4>>, JsNum(1000), <<>> >>,
     <<1000, 0, 3, <<3, 3, 3>>, JsNum(1000), <<>> >>,
     <<1000, 0, 3, <<3, 7, 9, 1>>, JsNum(1000), <<>> >>,
     Checkin(<< <<2, "prev", JsStr(<<>>)>> >>),
     Checkin(<< <<3, "hash", JsUndefined>> >>),
     Checkin(<< <<3, "index", JsNum(4)>> >>),
     Checkin(<< <<0, "spot_checks", JsArr(<<>>)>> >>),
     Checkin(<< <<1, "anchor_hash", JsStr(HashB)>> >>),
     Checkin(<< <<0, "anchor_hash", JsStr(HashB)>> >>) >>

\* A plan <<from_beat, to_beat, idxs, ah, edits>>: the check-in proof of a
\* client that wove the anchor hash ah into its beats at difficulty 1000
\* and names it in the proof, then edited.
WovenCheckinBody(plan) ==
  LET proof ==
        JsObj([from_beat |-> JsNum(plan[1]),
               to_beat |-> JsNum(plan[2]),
               from_hash |-> JsStr(ClientChainHash(plan[1], 1000,
                                                   Some(plan[4]))),
               to_hash |-> JsStr(ClientChainHash(plan[2], 1000,
                                                 Some(plan[4]))),
               beats_computed |-> JsNum(plan[2] - plan[1]),
               anchor_hash |-> JsStr(plan[4]),
               spot_checks |->
                 JsArr([k \in 1..Len(plan[3]) |->
                          SpotCheck(plan[3][k], 1000, Some(plan[4]))])])
  IN  BodyOf(<< <<"mode", JsStr(ModeProof)>>,
                <<"proof", Edited(proof, plan[5])>> >>)

WovenCheckinPlans ==
  << <<0, 3, <<1, 2, 3>>, HashB, <<>> >>,
     <<0, 3, <<1, 2, 3>>, HashB, << <<0, "anchor_hash", JsUndefined>> >> >>,
     <<0, 3, <<1, 2, 3>>, HashB, << <<0, "anchor_hash", JsStr(HashC)>> >> >>,
     <<0, 3, <<1, 2, 3>>, HashB, << <<2, "anchor_hash", JsStr(HashC)>> >> >>,
     <<0, 3, <<1, 2, 1>>, HashB, <<>> >>,
     <<0, 3, <<1, 2>>, HashB, <<>> >> >>

\* The bodies the client posts, by number: the beats, the chains, the
\* check-in proofs, a body with no proof, text that is no JSON, and null.
VerifyBodies ==
  [k \in 1..Len(BeatPlans) |-> BeatBody(BeatPlans[k])]
    \o [k \in 1..Len(ChainPlans) |-> ChainBody(ChainPlans[k])]
    \o [k \in 1..Len(CheckinPlans) |-> CheckinBody(CheckinPlans[k])]
    \o [k \in 1..Len(WovenCheckinPlans) |->
          WovenCheckinBody(WovenCheckinPlans[k])]
    \o << BodyOf(<< <<"mode", JsStr(ModeProof)>> >>),
          BodyOf(<< <<"mode", JsStr(ModeChain)>>,
                    <<"beats", JsArr(Rep(JsNull, MaxInlineChain + 1))>> >>),
          BodyOf(<< <<"mode", JsStr(ModeChain)>>,
                    <<"beats", JsArr(<<>>)>> >>),
          BadJson,
          JsNull >>

\* What POST hands back on each of them.
VerifyAnswers == [k \in DOMAIN VerifyBodies |-> VerifyAnswer(VerifyBodies[k])]

\* The createHash calls POST makes on each of them.
VerifyOperations ==
  [k \in DOMAIN VerifyBodies |-> HashOperations(VerifyBodies[k])]

\* ---------------------------------------------- verify: the request served

\* req is the number of the body served, 0 before the first.
IdleVerify ==
  [req |-> 0, response |-> NoResponse, recomputedAt |-> {}, sampled |-> <<>>]

VfIdle ==
  /\ verifyLimiterMap = NoEntries
  /\ vf = IdleVerify


\* ------------------------------------- app/api/v1/beat/timestamp/route

MAX_BODY_BYTES == 256
MIN_ANCHOR_BALANCE_LAMPORTS == 5000
MinuteMs == 60000
DayMs == 86400000

\* limiter, dailyLimiter, proLimiter and proDailyLimiter as constructed.
LimiterOptions ==
  [limiter |-> [maxRequests |-> 5, windowMs |-> MinuteMs],
   dailyLimiter |-> [maxRequests |-> 10, windowMs |-> DayMs],
   proLimiter |-> [maxRequests |-> 30, windowMs |-> MinuteMs],
   proDailyLimiter |-> [maxRequests |-> 500, windowMs |-> DayMs]]

LimiterNames == DOMAIN LimiterOptions

\* isValidProTierToken: configured is the environment's token and provided
\* the x-beats-tier-token header, each None or Some(string).
isValidProTierToken(configured, provided) ==
  IF configured = None \/ configured[1] = <<>> THEN FALSE
  ELSE IF provided = None \/ provided[1] = <<>> THEN FALSE
  ELSE IF Len(provided[1]) # Len(configured[1]) THEN FALSE
  ELSE \A k \in 1..Len(configured[1]) : provided[1][k] = configured[1][k]

\* Number(req.headers.get('content-length') || 0)
ContentLength(header) ==
  IF header = None \/ header[1] = <<>> THEN JsNum(0)
  ELSE ToNumber(JsStr(header[1]))

\* Number.isFinite(contentLength) && contentLength > MAX_BODY_BYTES
BodyTooLarge(header) ==
  /\ NumberIsFinite(ContentLength(header))
  /\ Twice(ContentLength(header)) > 2 * MAX_BODY_BYTES

\* String.prototype.trim on a string whose white space is blanks.
RECURSIVE trimStart(_)
trimStart(s) ==
  IF s # <<>> /\ Head(s) = " " THEN trimStart(Tail(s)) ELSE s

RECURSIVE trimEnd(_)
trimEnd(s) ==
  IF s # <<>> /\ s[Len(s)] = " "
    THEN trimEnd(SubSeq(s, 1, Len(s) - 1)) ELSE s

trim(s) == trimEnd(trimStart(s))

\* String(body?.hash ?? '').trim().toLowerCase()
HashRaw(body) ==
  toLowerCase(trim(StringOf(Coalesce(Field(body, "hash"), JsStr(<<>>)))))

\* HASH_REGEX = /^[0-9a-f]{64}$/
HASH_REGEX_test(s) ==
  /\ Len(s) = HEX64_LENGTH
  /\ \A k \in 1..Len(s) : s[k] \in HexDigits \cup HexLower

\* What the awaited calls of one request do: every one resolves ("ok"), or
\* the named one is the first that does not.  "balance-low" is a balance
\* below the minimum; "send-lost" is sendAnchorMemo rejecting although its
\* memo is finalized (the confirmation gave up, or getTransaction threw).
Fates ==
  {"ok", "read-throws", "balance-throws", "balance-low", "send-throws",
   "send-lost", "sign-throws"}

\* What the request has done besides answering.
Effects(passed, anchor, balance, published, signed, memo) ==
  [passed |-> passed, anchor |-> anchor, balance |-> balance,
   published |-> published, signed |-> signed, memo |-> memo]

Rejected(passed) == Effects(passed, NULL, None, FALSE, FALSE, <<>>)

\* The try block of POST: hashRaw is bound to the current anchor, and the
\* memo is published and the receipt signed.  read is what readLatestAnchor
\* returns when it is called and resolves.
Anchored(cache, t, hashRaw, tier, read, fate) ==
  LET fresh == cache # NULL /\ t < cache.expiresAt
      anchor == IF fresh THEN cache.value ELSE read
      filled == IF fresh THEN cache
                ELSE [value |-> read, expiresAt |-> t + AnchorCacheTtlMs]
      balance == IF fate = "balance-low"
                   THEN MIN_ANCHOR_BALANCE_LAMPORTS - 1
                   ELSE MIN_ANCHOR_BALANCE_LAMPORTS
      failed == JsonResponse(502, "Failed to timestamp hash")
  IN  IF ~fresh /\ fate = "read-throws"
        THEN [cache |-> cache, response |-> failed,
              effects |-> Rejected(TRUE)]
      ELSE IF anchor = NULL
        THEN [cache |-> filled,
              response |-> JsonResponse(503,
                             "No anchor available on-chain yet"),
              effects |-> Rejected(TRUE)]
      ELSE IF fate = "balance-throws"
        THEN [cache |-> filled, response |-> failed,
              effects |-> Effects(TRUE, anchor, None, FALSE, FALSE, <<>>)]
      ELSE IF balance < MIN_ANCHOR_BALANCE_LAMPORTS
        THEN [cache |-> filled,
              response |-> JsonResponse(503,
                             "anchor wallet balance too low"),
              effects |-> Effects(TRUE, anchor, Some(balance), FALSE, FALSE,
                                  <<>>)]
      ELSE IF fate = "send-throws"
        THEN [cache |-> filled, response |-> failed,
              effects |-> Effects(TRUE, anchor, Some(balance), FALSE, FALSE,
                                  <<>>)]
      ELSE IF fate \in {"send-lost", "sign-throws"}
        THEN [cache |-> filled, response |-> failed,
              effects |-> Effects(TRUE, anchor, Some(balance), TRUE, FALSE,
                                  TimestampMemoJson(hashRaw, anchor, t))]
      ELSE [cache |-> filled,
            response |->
              [status |-> 200,
               timestamp |-> [type |-> "timestamp", hash |-> hashRaw,
                              anchor_index |-> anchor.beat_index,
                              anchor_hash |-> anchor.hash, utc |-> t],
               tier |-> tier],
            effects |-> Effects(TRUE, anchor, Some(balance), TRUE, TRUE,
                                TimestampMemoJson(hashRaw, anchor, t))]

\* POST from the content-type test to the test of the hash: the response
\* it returns there, or NoResponse and the normalized hash it goes on with.
Validation(req) ==
  IF ~ContentTypeIsJson(req.contentType)
    THEN [response |->
            JsonResponse(415, "Content-Type must be application/json"),
          hashRaw |-> <<>>]
  ELSE IF BodyTooLarge(req.contentLength)
    THEN [response |-> JsonResponse(413, "Request body too large"),
          hashRaw |-> <<>>]
  ELSE IF req.body = BadJson
    THEN [response |-> JsonResponse(400, "Invalid JSON body"),
          hashRaw |-> <<>>]
  ELSE LET hashRaw == CHOOSE h \in {HashRaw(req.body)} : TRUE
       IN  IF ~HASH_REGEX_test(hashRaw)
             THEN [response |-> JsonResponse(400,
                     "hash must be exactly 64 lowercase hex characters"),
                   hashRaw |-> hashRaw]
           ELSE [response |-> NoResponse, hashRaw |-> hashRaw]

\* POST after both limiters have let the request in; checked is
\* Validation(req).
Admitted(cache, t, checked, tier, read, fate) ==
  IF checked.response # NoResponse
    THEN [cache |-> cache, response |-> checked.response,
          effects |-> Rejected(TRUE)]
  ELSE Anchored(cache, t, checked.hashRaw, tier, read, fate)

\* A handler that goes on after the daily limiter has refused.
TimestampPost_DailyNotEnforced(limiters, configured, cache, t, req, checked, read, fate) ==
  LET tier == IF isValidProTierToken(configured, req.token)
                THEN "pro" ELSE "free"
      short == IF tier = "pro" THEN "proLimiter" ELSE "limiter"
      long == IF tier = "pro" THEN "proDailyLimiter" ELSE "dailyLimiter"
      rl == RateLimiterCheck(limiters[short], req.ip, t,
                             LimiterOptions[short].maxRequests,
                             LimiterOptions[short].windowMs)
      daily == RateLimiterCheck(limiters[long], req.ip, t,
                                LimiterOptions[long].maxRequests,
                                LimiterOptions[long].windowMs)
  IN  IF ~rl.allowed
        THEN [limiters |-> [limiters EXCEPT ![short] = rl.map],
              tier |-> tier, cache |-> cache,
              response |-> rateLimitResponse(rl.resetAt),
              effects |-> Rejected(FALSE)]
      ELSE [limiters |-> [limiters EXCEPT ![short] = rl.map,
                                          ![long] = daily.map],
            tier |-> tier]
             @@ Admitted(cache, t, checked, tier, read, fate)

\* POST /api/v1/beat/timestamp at time t, checked being Validation(req): the
\* limiters and the cache after the request, the response, and what the
\* request has done.
TimestampPost(limiters, configured, cache, t, req, checked, read, fate) ==
  LET tier == IF isValidProTierToken(configured, req.token)
                THEN "pro" ELSE "free"
      short == IF tier = "pro" THEN "proLimiter" ELSE "limiter"
      long == IF tier = "pro" THEN "proDailyLimiter" ELSE "dailyLimiter"
      rl == RateLimiterCheck(limiters[short], req.ip, t,
                             LimiterOptions[short].maxRequests,
                             LimiterOptions[short].windowMs)
      daily == RateLimiterCheck(limiters[long], req.ip, t,
                                LimiterOptions[long].maxRequests,
                                LimiterOptions[long].windowMs)
  IN  IF ~rl.allowed
        THEN [limiters |-> [limiters EXCEPT ![short] = rl.map],
              tier |-> tier, cache |-> cache,
              response |-> rateLimitResponse(rl.resetAt),
              effects |-> Rejected(FALSE)]
      ELSE IF ~daily.allowed
        THEN [limiters |-> [limiters EXCEPT ![short] = rl.map,
                                            ![long] = daily.map],
              tier |-> tier, cache |-> cache,
              response |-> JsonResponse(429,
                             "Daily timestamp quota exceeded"),
              effects |-> Rejected(FALSE)]
      ELSE [limiters |-> [limiters EXCEPT ![short] = rl.map,
                                          ![long] = daily.map],
            tier |-> tier]
             @@ Admitted(cache, t, checked, tier, read, fate)

\* --------------------------------------------- timestamp: the requests sent

\* Minutes the clock moves on within a day.
MaxMinutes == 2

\* Requests a client sends without the valid token, per day, when the
\* environment has a token; and the requests let in per day and tier that
\* publish nothing.
MaxDowngraded == 1
MaxUnpublished == 1

\* The minutes of the day that have passed, and the requests with the token
\* that have been served in them, one memo each, when a behaviour starts in
\* the course of a day.
MinutesBefore == 16
ServedBefore == 465

ProToken == <<"t", "o", "k">>

\* A request: the x-beats-tier-token, content-type and content-length
\* headers, the bytes of the body, and the body as parsed.
TimestampRequest(token, contentType, contentLength, bytes, body) ==
  [ip |-> ClientIp, token |-> token, contentType |-> contentType,
   contentLength |-> contentLength, bytes |-> bytes, body |-> body]

\* {"hash":"<hash>"} sent with the content-length it has.
HashBody(hash) == JsObj([hash |-> hash])

Plain(token, hash) ==
  TimestampRequest(token, JsonContentType, Some(<<"7", "5">>), 75,
                   HashBody(hash))

\* The requests without the token, by number.
FreeRequests ==
  << Plain(None, JsStr(HashA)),
     Plain(None, JsStr(Rep("A", HEX64_LENGTH))),
     TimestampRequest(None, JsonContentType, Some(<<"7", "7">>), 77,
                      HashBody(JsStr(<<" ">> \o HashA \o <<" ">>))),
     TimestampRequest(None, JsonContentType, Some(<<"7", "9">>), 79,
                      HashBody(JsArr(<<JsStr(HashA)>>))),
     Plain(None, JsStr(SubSeq(HashA, 1, HEX64_LENGTH - 1))),
     Plain(None, JsStr(Rep("g", HEX64_LENGTH))),
     Plain(None, JsNum(5)),
     TimestampRequest(None, JsonContentType, Some(<<"2">>), 2,
                      JsObj(<<>>)),
     TimestampRequest(None, JsonContentType, Some(<<"4">>), 4, JsNull),
     TimestampRequest(None, JsonContentType, Some(<<"3">>), 3, BadJson),
     TimestampRequest(None, None, Some(<<"7", "5">>), 75,
                      HashBody(JsStr(HashA))),
     TimestampRequest(None, Some("text/plain"), Some(<<"7", "5">>), 75,
                      HashBody(JsStr(HashA))),
     TimestampRequest(None, Some("application/json; charset=utf-8"),
                      Some(<<"7", "5">>), 75, HashBody(JsStr(HashA))),
     TimestampRequest(None, JsonContentType, Some(<<"2", "5", "6">>), 256,
                      HashBody(JsStr(HashA))),
     TimestampRequest(None, JsonContentType, Some(<<"2", "5", "7">>), 257,
                      HashBody(JsStr(HashA))),
     TimestampRequest(None, JsonContentType, None, 300,
                      HashBody(JsStr(HashA))),
     TimestampRequest(None, JsonContentType, Some(<<"a", "b", "c">>), 300,
                      HashBody(JsStr(HashA))),
     TimestampRequest(None, JsonContentType, Some(<<>>), 75,
                      HashBody(JsStr(HashA))),
     Plain(Some(<<>>), JsStr(HashA)),
     Plain(Some(<<"t", "o", "x">>), JsStr(HashA)),
     Plain(Some(<<"t", "o", "k", "k">>), JsStr(HashA)) >>

\* The requests sent without the valid token where a token is configured.
Downgraded == {1} \cup ((Len(FreeRequests) - 2)..Len(FreeRequests))

\* The requests with the token.
ProRequests ==
  << Plain(Some(ProToken), JsStr(HashA)),
     Plain(Some(ProToken), JsStr(HashB)),
     Plain(Some(ProToken), JsStr(Rep("g", HEX64_LENGTH))),
     TimestampRequest(Some(ProToken), Some("text/plain"),
                      Some(<<"7", "5">>), 75, HashBody(JsStr(HashA))) >>

TimestampRequests == FreeRequests \o ProRequests

\* Validation of each of them.
TimestampValidations ==
  [k \in DOMAIN TimestampRequests |-> Validation(TimestampRequests[k])]

\* readLatestAnchor on the ledger of the published anchors.
PublishedTip == readLatestAnchor(SubSeq(PublishedLedger, 1, PublishedAnchors))

\* ----------------------------------------- timestamp: the request served

NoLimiterEntries == [name \in LimiterNames |-> NoEntries]

\* req is the number of the request served last, 0 before the first.
IdleTimestamp ==
  [req |-> 0, fate |-> "ok", tier |-> "free", response |-> NoResponse,
   effects |-> Rejected(FALSE)]

TsIdle ==
  /\ tsLimiters = NoLimiterEntries
  /\ proTierToken = None
  /\ ts = IdleTimestamp
  /\ tsPublished = [name \in LimiterNames |-> 0]

\* --------------------------------------------- a RateLimiter and its keys

\* The clock moves on by half a window, this many times.
MaxRlTicks == 3

\* Groups of other keys that call check in one behaviour.
MaxCrowds == 1

\* The limiter is `limiter` of the timestamp route.
RlOptions == LimiterOptions.limiter

\* The keys whose calls are followed one by one.
RlKeys == {"198.51.100.1", "198.51.100.2"}

\* The numbers of other keys that call check once each, together.
CrowdSizes == {1, 100, 20000}

NoCall ==
  [key |-> "", t |-> 0, before |-> NULL, after |-> NULL, allowed |-> FALSE,
   remaining |-> 0, resetAt |-> 0]

RlIdle ==
  /\ rlMap = [key \in RlKeys |-> NULL]
  /\ rlCrowd = <<>>
  /\ rlLast = NoCall
  /\ rlAllowed = [key \in RlKeys |-> 0]

\* ------------------------------------ lib/solana.ts readLatestAnchorCached

\* The clock moves on by half the time to live, this many times.
MaxAcTicks == 4

\* The concurrent callers of readLatestAnchorCached.
AcCallers == {1, 2}

\* `_anchorCache && now < _anchorCache.expiresAt`
CacheHit(cache, t) == cache # NULL /\ t < cache.expiresAt

\* An entry that lives ttlMs from the moment the read resolved.
CacheFill_FromResolution(latest, start, resolved, ttlMs) ==
  [value |-> latest, expiresAt |-> resolved + ttlMs]

\* `_anchorCache = { value: latest, expiresAt: now + ttlMs }`, now being the
\* Date.now() taken at the call (start); the read resolved at `resolved`.
CacheFill(latest, start, resolved, ttlMs) ==
  [value |-> latest, expiresAt |-> start + ttlMs]

\* readLatestAnchor on the ledgers of the behaviours, by their length.
TipAfter ==
  [n \in PublishedAnchors..(PublishedAnchors + MaxLandings) |->
     readLatestAnchor(SubSeq(PublishedLedger, 1, n))]

\* A call: start is the Date.now() it took, seen the entry it found, from
\* where its value came ("cache", "ledger", or "failed" when the read
\* threw), read whether it called readLatestAnchor, tip what the RPC node
\* answered to getSignaturesForAddress and at the length of the ledger it
\* answered from, produced the start of the read its value came from, wrote
\* the entry it stored, and before and after the entry of the cache when its
\* read ended and when it returned.
IdleCaller ==
  [pc |-> "idle", start |-> 0, seen |-> NULL, from |-> "", read |-> FALSE,
   tip |-> NULL, at |-> 0, value |-> NULL, produced |-> 0, wrote |-> NULL,
   before |-> NULL, after |-> NULL]

AcIdle ==
  /\ acCallers = [c \in AcCallers |-> IdleCaller]
  /\ acProduced = 0
  /\ acRead = 0

\* ------------------------------------- sdk/beats-client: createBeatsClient

\* Requests for an anchor the client sends in one behaviour.
MaxAnchorRequests == 2

\* The calls of getAnchor that can be under way together.
SdkCallers == {1, 2}

Anchor(beat_index, hash, prev_hash) ==
  [beat_index |-> JsNum(beat_index), hash |-> hash, prev_hash |-> prev_hash]

\* data.anchor of the responses, or none (NULL): a chain of three linked
\* anchors, and at its second index an anchor with another hash and one
\* that is not linked.
ServerAnchors ==
  {Anchor(1, HashA, HashB), Anchor(2, HashB, HashA), Anchor(3, HashA, HashB),
   Anchor(2, HashA, HashA), Anchor(2, HashB, HashB)}

\* The anchors the application passes to setLastKnownAnchor and resync.
ClientAnchors ==
  {Anchor(1, HashA, HashB),
   [beat_index |-> JsNum(2), hash |-> HashB],
   NULL,
   [beat_index |-> JsStr(<<"2">>), hash |-> HashB],
   [beat_index |-> JsNum(2), hash |-> Rep("g", HEX64_LENGTH)]}

\* anchor && typeof anchor.beat_index === 'number' && HEX64.test(anchor.hash)
ValidAnchor(anchor) ==
  IF anchor = NULL THEN FALSE
  ELSE anchor.beat_index.t = "number" /\ HEX64_test(anchor.hash)

\* The continuity validation of getAnchor: the code of the error it throws,
\* "" when it throws none.
ContinuityError(anchor, lastAnchor) ==
  IF anchor = NULL \/ lastAnchor = NULL THEN ""
  ELSE IF anchor.beat_index.n < lastAnchor.beat_index.n
    THEN "ANCHOR_REGRESSION"
  ELSE IF anchor.beat_index.n = lastAnchor.beat_index.n
    THEN IF anchor.hash # lastAnchor.hash THEN "ANCHOR_FORK" ELSE ""
  ELSE IF anchor.beat_index.n = lastAnchor.beat_index.n + 1
    THEN IF anchor.prev_hash # lastAnchor.hash
           THEN "ANCHOR_CHAIN_BREAK" ELSE ""
  ELSE "ANCHOR_JUMP"

\* "Update continuity state": _lastAnchor after getAnchor has gone through.
Updated(anchor, lastAnchor) ==
  IF anchor = NULL THEN lastAnchor
  ELSE IF lastAnchor = NULL THEN anchor
  ELSE IF anchor.beat_index.n > lastAnchor.beat_index.n THEN anchor
  ELSE lastAnchor

\* A setLastKnownAnchor that a broken client lets through.
setLastKnownAnchor_WhileBroken(broken, lastAnchor, anchor) ==
  IF ValidAnchor(anchor) THEN [threw |-> "", lastAnchor |-> anchor]
  ELSE [threw |-> "", lastAnchor |-> lastAnchor]

\* setLastKnownAnchor(anchor): whether it throws, and _lastAnchor after it.
setLastKnownAnchor(broken, lastAnchor, anchor) ==
  IF broken THEN [threw |-> "Chain is broken", lastAnchor |-> lastAnchor]
  ELSE IF ValidAnchor(anchor) THEN [threw |-> "", lastAnchor |-> anchor]
  ELSE [threw |-> "", lastAnchor |-> lastAnchor]

\* resync(anchor): whether it throws, and _broken and _lastAnchor after it.
resync(broken, lastAnchor, anchor) ==
  IF ~ValidAnchor(anchor)
    THEN [threw |-> "resync requires a valid anchor", broken |-> broken,
          lastAnchor |-> lastAnchor]
  ELSE [threw |-> "", broken |-> FALSE, lastAnchor |-> anchor]

\* A call of getAnchor: opts is "none" or "verify" (verify: true, or
\* recompute: true with an anchor in the response); anchor is data.anchor;
\* known and broken are _lastAnchor and _broken when the anchor was
\* validated, kept while the call awaits the verification; threw is the
\* code or message of the error thrown, "" when data was returned.
IdleCall ==
  [pc |-> "idle", opts |-> "none", anchor |-> NULL, known |-> NULL,
   broken |-> FALSE, threw |-> ""]

\* The call of setLastKnownAnchor or resync made last; op is "" before the
\* first.
NoStep == [op |-> "", arg |-> NULL, threw |-> ""]

SdkIdle ==
  /\ sdkLastAnchor = NULL
  /\ sdkBroken = FALSE
  /\ sdkCalls = [c \in SdkCallers |-> IdleCall]
  /\ sdkRequests = 0
  /\ sdkLast = NoStep

\* -------------------------------------------- the canonical tip: the reads

\* Anchors the cron handler publishes in one behaviour.
MaxTipAnchors == 1

\* Timestamp memos published in one behaviour, and the numbers of requests
\* the timestamp endpoint serves in a row.
MaxMemos == 50
MemoBursts == {10, 20}

\* Steps of the clock, each a little more than the anchor interval.
MaxTipTicks == 1
TipTickMs == (GLOBAL_ANCHOR_INTERVAL_SEC + 1) * 1000

\* Local chain: the awaited advance() and computeCatchup() calls made on a
\* chain, the startAutoAdvance() calls, and the beats a chain with
\* overlapping calls computes.
MaxAdvances == 2
MaxCatchups == 1
MaxStarts == 2
MaxOverlapBeats == 3

\* reads counts the reads made (2 for two and more), last is what the last
\* one returned and prev what the one before it returned; anchored tells
\* whether an anchor was finalized when the last one was made.
NoReads == [reads |-> 0, last |-> NULL, prev |-> NULL, anchored |-> FALSE]

TipIdle == tp = NoReads

\* ---------------------------------------- beats client: receipts and keys

\* Public keys are strings: KeyA and KeyB decode to Ed25519 keys, KeyBad
\* does not decode, and NoKey stands for null, undefined and '', which the
\* client tells apart from a key by truthiness only.
KeyA == "A"
KeyB == "B"
KeyBad == "bad"
NoKey == ""
Keys == {KeyA, KeyB}

\* A signature names the private key that made it and the payload it was
\* made over; NoSignature is a response without one.
Signature(signer, over) == [signer |-> signer, over |-> over]
NoSignature == Signature("", "")

\* verifyEd25519 behind the try of verifyReceipt: the canonical JSON of the
\* payload against the signature under the key; a key that does not decode
\* throws, which the caller turns into false.
verifyEd25519(payload, signature, key) ==
  /\ key \in Keys
  /\ signature.signer = key
  /\ signature.over = payload

\* A response: the payloads it carries under timestamp, anchor and payload
\* ("" when absent), whether it has a receipt object, the signature of
\* receipt.signature || signature, and receipt.public_key.
Response(timestamp, anchor, receipt, signature, public_key) ==
  [timestamp |-> timestamp, anchor |-> anchor, payload |-> "",
   receipt |-> receipt, signature |-> signature, public_key |-> public_key]

\* `response?.timestamp || response?.anchor || response?.payload`
PayloadOf(response) ==
  IF response.timestamp # "" THEN response.timestamp
  ELSE IF response.anchor # "" THEN response.anchor
  ELSE response.payload

\* A client that falls back on the key the response embeds.
KeyAtCall_Embedded(response, publicKey, cachedKey) ==
  IF publicKey # NoKey THEN publicKey
  ELSE IF cachedKey # NoKey THEN cachedKey
  ELSE response.public_key

\* `opts.publicKey || _cachedKey`: the key verifyReceipt has before it
\* awaits _resolveKey, NoKey when it has to await it.
KeyAtCall(response, publicKey, cachedKey) ==
  IF publicKey # NoKey THEN publicKey ELSE cachedKey

\* The responses handed to verifyReceipt: a timestamp signed by KeyA, one
\* signed by KeyB that embeds KeyB, one signed by KeyB that embeds KeyA, a
\* timestamp whose signature was made over another payload, one with no
\* signature, one with no payload, and an anchor response signed by KeyA.
Receipts ==
  << Response("T1", "", TRUE, Signature(KeyA, "T1"), KeyA),
     Response("T1", "", TRUE, Signature(KeyB, "T1"), KeyB),
     Response("T1", "", TRUE, Signature(KeyB, "T1"), KeyA),
     Response("T2", "", TRUE, Signature(KeyA, "T1"), KeyA),
     Response("T1", "", TRUE, NoSignature, KeyA),
     Response("", "", TRUE, Signature(KeyA, "T1"), KeyA),
     Response("", "A1", TRUE, Signature(KeyA, "A1"), KeyA) >>

\* The bodies GET /api/v1/beat/anchor answers getAnchor with: an anchor
\* signed by KeyA, one signed by KeyB that embeds KeyB, and one without a
\* receipt.
AnchorResponses ==
  << Response("", "A1", TRUE, Signature(KeyA, "A1"), KeyA),
     Response("", "A1", TRUE, Signature(KeyB, "A1"), KeyB),
     Response("", "A1", FALSE, NoSignature, NoKey) >>

\* opts.publicKey of a call of verifyReceipt.
OptionKeys == {NoKey, KeyA, KeyB, KeyBad}

\* What GET /api/v1/beat/key answers: public_key_hex || public_key_base58.
KeyAnswers == {KeyA, KeyB, NoKey}

KeyCallers == {1, 2}

\* A call: via is "verifyReceipt" or "getAnchor", response and publicKey
\* its arguments, cached the _cachedKey it found, key the key it verified
\* with (NoKey when it verified with none), fetched whether it awaited
\* getKey, and result its outcome: "true", "false", or "threw" for
\* getAnchor's 'Anchor receipt verification failed'.
IdleKeyCall ==
  [pc |-> "idle", via |-> "", response |-> Response("", "", FALSE,
                                                    NoSignature, NoKey),
   publicKey |-> NoKey, cached |-> NoKey, key |-> NoKey, fetched |-> FALSE,
   result |-> ""]

KeyIdle ==
  /\ krPinned = NoKey
  /\ krCached = NoKey
  /\ krCalls = [c \in KeyCallers |-> IdleKeyCall]

\* ------------------------------------------------------ receipts: values

\* An object is its own properties in insertion order, a sequence of
\* <<key, value>> pairs; a JSON text is the sequence of the pairs it
\* spells, so JSON.parse of a text is the object with those properties.
ObjKeys(o) == {o[i][1] : i \in DOMAIN o}
ObjGet(o, key) ==
  IF key \in ObjKeys(o) THEN o[CHOOSE i \in DOMAIN o : o[i][1] = key][2]
  ELSE JsUndefined
ObjWithout(o, key) == SelectSeq(o, LAMBDA p : p[1] # key)

\* JSON.stringify of an object: its properties in order, without those
\* whose value is undefined, NaN and Infinity written as null.
JsonStringify(o) ==
  LET kept == SelectSeq(o, LAMBDA p : p[2] # JsUndefined)
  IN  [i \in DOMAIN kept |->
         <<kept[i][1],
           IF kept[i][2].t = "number" /\ kept[i][2].k \in {"nan", "inf"}
           THEN JsNull ELSE kept[i][2]>>]

\* The property names of the two receipts as Array.prototype.sort orders
\* them.
SortedKeys ==
  <<"anchor_hash", "anchor_index", "beats_verified", "difficulty",
    "from_hash", "hash", "signature", "to_hash", "tx_signature", "type",
    "utc">>

\* `Object.keys(value).sort()` and the copy made in that order.
SortKeys(value) ==
  LET keys == SelectSeq(SortedKeys, LAMBDA k : k \in ObjKeys(value))
  IN  [i \in DOMAIN keys |-> <<keys[i], ObjGet(value, keys[i])>>]

\* lib/solana.ts canonicalJson, the server's.
canonicalJson(value) == JsonStringify(SortKeys(value))

\* The client's toCanonicalJson.
toCanonicalJson(value) == JsonStringify(SortKeys(value))

\* The key getReceiptPrivateKey derives and the work-proof signing key.
ReceiptKey == KeyA
WorkProofKey == KeyB

\* signReceipt: the timestamp key's signature over the canonical JSON.
signReceipt(payload) ==
  [signature_base64 |-> Signature(ReceiptKey, canonicalJson(payload))]

\* signWorkProofReceipt over a payload object: the work-proof key's
\* signature over the canonical JSON.
signWorkProofPayload(payload) ==
  [signature_base64 |-> Signature(WorkProofKey, canonicalJson(payload))]

\* GET /api/v1/beat/key: the two published keys.
PublishedKeys ==
  [public_key_hex |-> ReceiptKey, work_proof |-> WorkProofKey]

\* The receiptPayload of the timestamp route and the body it answers with.
TimestampReceiptPayload(hashRaw, anchor, timestampUtc, signature) ==
  << <<"type", JsStr(<<"timestamp">>)>>, <<"hash", JsStr(hashRaw)>>,
     <<"anchor_index", JsNum(anchor.beat_index)>>,
     <<"anchor_hash", JsStr(anchor.hash)>>,
     <<"utc", JsNum(timestampUtc)>>,
     <<"tx_signature", JsStr(<<signature>>)>> >>

TimestampReceiptBody(receiptPayload) ==
  [timestamp |-> JsonStringify(receiptPayload),
   receipt |->
     JsonStringify(
       << <<"signature", JsStr(signReceipt(receiptPayload).signature_base64)>>,
          <<"public_key", JsStr(<<ReceiptKey>>)>> >>)]

\* The receiptPayload of the work-proof route and the body it answers
\* with: `receipt: {...receiptPayload, signature}`.
WorkProofReceiptPayload(beats, difficulty, anchorHash, toHash, utc) ==
  << <<"type", JsStr(<<"work_proof">>)>>, <<"beats_verified", JsNum(beats)>>,
     <<"difficulty", JsNum(difficulty)>>,
     <<"anchor_index", JsNum(PublishedAnchors)>>,
     <<"anchor_hash",
       IF anchorHash = None THEN JsNull ELSE JsStr(anchorHash[1])>>,
     <<"from_hash", JsStr(HashA)>>,
     <<"to_hash", JsStr(toHash)>>,
     <<"utc", JsStr(<<utc>>)>> >>

WorkProofReceiptBody(receiptPayload) ==
  [timestamp |-> <<>>,
   receipt |->
     JsonStringify(
       receiptPayload \o
         << <<"signature",
              JsStr(signWorkProofPayload(receiptPayload).signature_base64)>>
         >>)]

\* verifyReceipt on a timestamp response, with the published key.
VerifyTimestampReceipt(response, key) ==
  LET payload == response.timestamp
      signature == ObjGet(response.receipt, "signature")
  IN  /\ payload # <<>>
      /\ signature.t = "string"
      /\ verifyEd25519(toCanonicalJson(payload), signature.s, key)

\* A verifier that checks the receipt as it came, signature included.
RestOfReceipt_KeepsSignature(receipt) == receipt

\* `const { signature, ...payload } = receipt`: the rest of the receipt.
RestOfReceipt(receipt) == ObjWithout(receipt, "signature")

\* verifyWorkProofReceipt with the published work-proof key.
verifyWorkProofReceipt(receiptResponse, key) ==
  LET receipt == receiptResponse.receipt
      signature == ObjGet(receipt, "signature")
      payload == RestOfReceipt(receipt)
  IN  /\ receipt # <<>>
      /\ signature.t = "string"
      /\ key # NoKey
      /\ verifyEd25519(toCanonicalJson(payload), signature.s, key)

\* What a party between server and verifier does to a signed field.
Altered(v) ==
  CASE v.t = "string" -> JsStr(v.s \o <<"x">>)
    [] v.t = "number" -> JsNum(v.n + 1)
    [] OTHER -> JsStr(HashF)

ObjSet(o, key, v) ==
  [i \in DOMAIN o |-> IF o[i][1] = key THEN <<key, v>> ELSE o[i]]

Reversed(o) == [i \in DOMAIN o |-> o[Len(o) + 1 - i]]

ReceiptHashes == {HashA, HashB}
ReceiptAnchors ==
  {[beat_index |-> 7, hash |-> HashB], [beat_index |-> 8, hash |-> HashC]}
ReceiptTimes == {WorkProofEpoch, WorkProofEpoch + 1}
ReceiptBeats == {10, 100}
ReceiptDifficulties == {MIN_DIFFICULTY, DEFAULT_DIFFICULTY}
ReceiptAnchorHashes == {None, Some(HashB)}
ReceiptIsoTimes == {"2026-01-01T00:00:00.000Z"}

NoReceipt ==
  [pc |-> "idle", kind |-> "", payload |-> <<>>,
   body |-> [timestamp |-> <<>>, receipt |-> <<>>],
   changed |-> FALSE, reordered |-> FALSE, verified |-> FALSE]

RcIdle == rc = NoReceipt

\* --------------------------------------------------- local chain: values

BEATS_PER_ANCHOR == 100
MAX_RESYNC_BEATS == 10000

\* The defaults of the constructor, of clearHistory and of getProof, and
\* the ceiling computeBeat puts on the difficulty.
ChainDefaultDifficulty == 1000
DefaultMaxHistory == 500
DefaultKeepLast == 100
DefaultSpotCheckCount == 5
MaxBeatDifficulty == 1000000

DefaultDomainPrefix == "beats:genesis:v1:"

\* The SHA-256 of `${domainPrefix}${seed}`, one digest per seed.
GenesisHash(seed) == IF seed = "agent-1" THEN HashA ELSE HashB

\* createGenesisBeat(seed, domainPrefix); timestamp is read by no caller.
createGenesisBeat(seed) ==
  [index |-> 0, hash |-> GenesisHash(seed), prev |-> Rep("0", HEX64_LENGTH)]

\* `genesis.anchor_hash ?? null`
GenesisAnchorHash(genesis) ==
  IF Has(genesis, "anchor_hash") THEN genesis.anchor_hash ELSE None

\* The constructor.  anchorHash is None (null) or Some(h); maxHistory is a
\* number value, which may be Infinity.
NewChain(genesis, seed, difficulty, anchorIndex, anchorHash, maxHistory) ==
  LET first == [index |-> genesis.index, hash |-> genesis.hash,
                prev |-> genesis.prev,
                anchor_hash |-> GenesisAnchorHash(genesis)]
  IN  [seed |-> seed, difficulty |-> difficulty,
       domainPrefix |-> DefaultDomainPrefix, anchorIndex |-> anchorIndex,
       anchorHash |-> anchorHash, maxHistory |-> maxHistory,
       genesis |-> first, head |-> first, beatCount |-> 0,
       history |-> <<first>>]

\* The SDK's computeBeat: the difficulty floored and clamped to
\* 1..1_000_000, then the digest of lib/beat.ts computeBeat without nonce.
clientComputeBeat(prevHash, beatIndex, difficulty, anchorHash) ==
  LET d == Max(1, Min(difficulty, MaxBeatDifficulty))
      beat == computeBeat(prevHash, beatIndex, d, None, anchorHash)
  IN  [index |-> beatIndex, hash |-> beat.hash, prev |-> prevHash,
       anchor_hash |-> anchorHash]

\* `length > n` for a number value n.
Exceeds(length, n) == n.k = "int" /\ length > n.n

\* Array.prototype.slice(start).
Slice(arr, start) ==
  LET from == IF start < 0 THEN Max(Len(arr) + start, 0)
              ELSE Min(start, Len(arr))
  IN  SubSeq(arr, from + 1, Len(arr))

\* advance() up to its await: what it hands to computeBeat.
Begun(chain) ==
  [nextIndex |-> chain.head.index + 1, prev |-> chain.head.hash,
   difficulty |-> chain.difficulty, anchorHash |-> chain.anchorHash]

Computed(args) ==
  clientComputeBeat(args.prev, args.nextIndex, args.difficulty,
                    args.anchorHash)

\* An advance() that leaves beatCount as it was.
Appended_CountKept(chain, beat) ==
  LET pushed == Append(chain.history, beat)
  IN  [chain EXCEPT
         !.head = beat,
         !.history = IF Exceeds(Len(pushed), chain.maxHistory)
                     THEN Slice(pushed, Len(pushed) - chain.maxHistory.n)
                     ELSE pushed]

\* advance() after its await: the beat becomes the head and is pushed, the
\* count goes up, the history is trimmed to maxHistory.
Appended(chain, beat) ==
  LET pushed == Append(chain.history, beat)
  IN  [chain EXCEPT
         !.head = beat,
         !.beatCount = @ + 1,
         !.history = IF Exceeds(Len(pushed), chain.maxHistory)
                     THEN Slice(pushed, Len(pushed) - chain.maxHistory.n)
                     ELSE pushed]

\* An awaited advance().
Advanced(chain) ==
  CHOOSE after \in
    {Appended(chain, beat) : beat \in {Computed(Begun(chain))}} : TRUE

\* n awaited advance() calls in a row, as the first half of them followed
\* by the rest.
RECURSIVE AdvancedBy(_, _)
AdvancedBy(chain, n) ==
  IF n = 0 THEN chain
  ELSE IF n = 1 THEN Advanced(chain)
  ELSE CHOOSE after \in
         {AdvancedBy(half, n - (n \div 2)) :
            half \in {AdvancedBy(chain, n \div 2)}} : TRUE

detectGap(chain, currentAnchorIndex) ==
  LET gap_anchors == Max(0, currentAnchorIndex - chain.anchorIndex)
  IN  [gap_anchors |-> gap_anchors,
       gap_beats_needed |->
         Min(gap_anchors * BEATS_PER_ANCHOR, MAX_RESYNC_BEATS),
       last_anchor_index |-> chain.anchorIndex]

\* An awaited computeCatchup(anchorIndex, anchorHash).
computeCatchup(chain, anchorIndex, anchorHash) ==
  AdvancedBy([chain EXCEPT !.anchorIndex = anchorIndex,
                           !.anchorHash = anchorHash],
             detectGap(chain, anchorIndex).gap_beats_needed)

\* setAnchorIndex; an index below 0 throws and changes nothing.
setAnchorIndex(chain, anchorIndex, anchorHash) ==
  IF anchorIndex < 0 THEN chain
  ELSE [chain EXCEPT !.anchorIndex = anchorIndex, !.anchorHash = anchorHash]

clearHistory(chain, keepLast) ==
  IF Len(chain.history) > keepLast
  THEN [chain EXCEPT !.history = Slice(@, Len(@) - keepLast)]
  ELSE chain

\* sampleEvenly(arr, count); arr[k + 1] is the element at k.
sampleEvenly(arr, count) ==
  IF count <= 0 \/ Len(arr) = 0 THEN <<>>
  ELSE IF count >= Len(arr) THEN arr
  ELSE IF count = 1 THEN <<arr[(Len(arr) \div 2) + 1]>>
  ELSE [i \in 1..count |->
          arr[(((i - 1) * (Len(arr) - 1)) \div (count - 1)) + 1]]

\* The spot checks of the sampled beats, each index once.
RECURSIVE SpotChecksOf(_, _)
SpotChecksOf(sampled, seen) ==
  IF sampled = <<>> THEN <<>>
  ELSE IF Head(sampled).index \in seen THEN SpotChecksOf(Tail(sampled), seen)
  ELSE <<[index |-> Head(sampled).index, hash |-> Head(sampled).hash,
          prev |-> Head(sampled).prev]>>
         \o SpotChecksOf(Tail(sampled), seen \cup {Head(sampled).index})

\* getProof(lo, hi, spotCheckCount): lo and hi are None (undefined) or
\* Some(n).  NULL when it throws for want of work beats; anchor_hash is
\* None when the proof has no such property.
getProof(chain, lo, hi, spotCheckCount) ==
  LET workBeats ==
        SelectSeq(chain.history,
                  LAMBDA b : /\ b.index # chain.genesis.index
                             /\ (lo = None \/ ~(b.index < lo[1]))
                             /\ (hi = None \/ ~(b.index > hi[1])))
      first == workBeats[1]
      last == workBeats[Len(workBeats)]
      count == Max(1, Min(spotCheckCount, Len(workBeats)))
  IN  IF Len(workBeats) = 0 THEN NULL
      ELSE [from_hash |-> first.prev, to_hash |-> last.hash,
            beats_computed |-> last.index - first.index + 1,
            difficulty |-> chain.difficulty,
            anchor_index |-> chain.anchorIndex,
            spot_checks |-> SpotChecksOf(sampleEvenly(workBeats, count), {}),
            anchor_hash |-> IF chain.anchorHash \in {None, Some(<<>>)}
                            THEN None ELSE chain.anchorHash]

\* JSON.stringify of a number value and of a string or null.
JsonNumber(v) == IF v.k \in {"nan", "inf"} THEN JsNull ELSE v
JsonHash(h) == IF h = None THEN JsNull ELSE JsStr(h[1])

EntryJson(b) ==
  [index |-> JsNum(b.index), hash |-> JsStr(b.hash), prev |-> JsStr(b.prev),
   anchor_hash |-> JsonHash(b.anchor_hash)]

\* JSON.parse(chain.persist()), lastUpdated left out: restore does not
\* read it.
PersistedState(chain) ==
  [seed |-> JsStr(<<chain.seed>>),
   difficulty |-> JsonNumber(JsNum(chain.difficulty)),
   domainPrefix |-> JsStr(<<chain.domainPrefix>>),
   genesis |-> EntryJson(chain.genesis), head |-> EntryJson(chain.head),
   beatCount |-> JsNum(chain.beatCount),
   anchorIndex |-> JsNum(chain.anchorIndex),
   anchorHash |-> JsonHash(chain.anchorHash),
   maxHistory |-> JsonNumber(chain.maxHistory),
   history |-> [i \in DOMAIN chain.history |-> EntryJson(chain.history[i])]]

\* `{ ...b }` of a parsed entry.
EntryOf(json) ==
  [index |-> json.index.n, hash |-> json.hash.s, prev |-> json.prev.s,
   anchor_hash |-> IF json.anchor_hash.t = "string"
                   THEN Some(json.anchor_hash.s) ELSE None]

\* LocalBeatChain.restore(state).
restore(state) ==
  LET made ==
        NewChain(EntryOf(state.genesis), state.seed.s[1],
                 Coalesce(state.difficulty, JsNum(ChainDefaultDifficulty)).n,
                 Coalesce(state.anchorIndex, JsNum(0)).n,
                 IF Coalesce(state.anchorHash, JsNull).t = "string"
                 THEN Some(state.anchorHash.s) ELSE None,
                 Coalesce(state.maxHistory, JsNum(DefaultMaxHistory)))
  IN  [made EXCEPT
         !.domainPrefix = Coalesce(state.domainPrefix,
                                   JsStr(<<DefaultDomainPrefix>>)).s[1],
         !.head = EntryOf(state.head),
         !.beatCount = Coalesce(state.beatCount, JsNum(0)).n,
         !.history = [i \in DOMAIN state.history |-> EntryOf(state.history[i])]]

\* JSON.stringify of a proof, as submitWorkProof posts it.
ProofBody(proof) ==
  LET fields ==
        [from_hash |-> JsStr(proof.from_hash),
         to_hash |-> JsStr(proof.to_hash),
         beats_computed |-> JsNum(proof.beats_computed),
         difficulty |-> JsNum(proof.difficulty),
         anchor_index |-> JsNum(proof.anchor_index),
         spot_checks |->
           JsArr([i \in DOMAIN proof.spot_checks |->
                    JsObj([index |-> JsNum(proof.spot_checks[i].index),
                           hash |-> JsStr(proof.spot_checks[i].hash),
                           prev |-> JsStr(proof.spot_checks[i].prev)])])]
  IN  JsObj(IF proof.anchor_hash = None THEN fields
            ELSE With(fields, "anchor_hash", JsStr(proof.anchor_hash[1])))

\* The chains create() is asked for.
ChainSeeds == {"agent-1"}
ChainDifficulties == {MIN_DIFFICULTY, ChainDefaultDifficulty}
ChainMaxHistories == {JsNum(0), JsNum(3), JsInf}
ChainAnchors ==
  {[index |-> 0, hash |-> None], [index |-> 1, hash |-> Some(HashB)]}
SetAnchorIndexes == {-1, 1}
KeepLasts == {0, 2}
ProofLows == {None, Some(2)}
SpotCheckCounts == {2, DefaultSpotCheckCount}
ManualCallers == {1, 2}
AutoLoops == 1..MaxStarts

Created ==
  {NewChain(createGenesisBeat(seed), seed, difficulty, 0, None, maxHistory) :
     seed \in ChainSeeds, difficulty \in ChainDifficulties,
     maxHistory \in ChainMaxHistories}

NoArgs == [nextIndex |-> 0, prev |-> <<>>, difficulty |-> 0,
           anchorHash |-> None]
NoSeen == [advances |-> 0, catchups |-> 0, cleared |-> FALSE,
           keptNone |-> FALSE]
NoProof == [called |-> FALSE, plain |-> FALSE, proof |-> NULL]
NoRestored == [done |-> FALSE, from |-> NULL, chain |-> NULL]
NoAuto == [handle |-> 0, running |-> FALSE, starts |-> 0, stopped |-> FALSE]
IdleAdvance == [pc |-> "idle", args |-> NoArgs]
UnbornLoop == [pc |-> "unborn", args |-> NoArgs]

LcSequentialIdle ==
  /\ lcSeen = NoSeen
  /\ lcProof = NoProof
  /\ lcRestored = NoRestored

LcOverlapIdle ==
  /\ lcCalls = [c \in ManualCallers |-> IdleAdvance]
  /\ lcLoops = [g \in AutoLoops |-> UnbornLoop]
  /\ lcAuto = NoAuto
  /\ lcFired = 0

LcIdle == lc = NULL /\ LcSequentialIdle /\ LcOverlapIdle

FinalIdle == TipIdle /\ KeyIdle /\ RcIdle /\ LcIdle

LaterIdle == TsIdle /\ RlIdle /\ AcIdle /\ SdkIdle /\ FinalIdle

\* ----------------------------------------------------- selector: the steps

vars ==
  <<selInput, selResult, selBase, contLatest, contIncoming, contResult,
    now, cronSecret, ledger, txs, inv, limiterMap, anchorCache, wp,
    served, verifyLimiterMap, vf, tsLimiters, proTierToken, ts,
    tsPublished, rlMap, rlCrowd, rlLast, rlAllowed, acCallers, acProduced,
    acRead,
    sdkLastAnchor, sdkBroken, sdkCalls, sdkRequests, sdkLast, tp,
    krPinned, krCached, krCalls, rc, lc, lcSeen, lcProof, lcRestored,
    lcCalls, lcLoops, lcAuto, lcFired>>

SelIdle == selInput = <<>> /\ selResult = NotRun /\ selBase = NotRun
ContIdle == contLatest = NULL /\ contIncoming = NULL /\ contResult = <<>>

SelInit ==
  /\ selInput \in CandidateLists
  /\ selResult = NotRun
  /\ selBase = NotRun

\* The first call of selectCanonicalAnchor on the list.
RunSelect ==
  /\ selResult = NotRun
  /\ selResult' = selectCanonicalAnchor(selInput)
  /\ selBase' = selectCanonicalAnchor(selInput)
  /\ UNCHANGED <<selInput, contVars, cronVars, wpVars, vfVars, laterVars>>

\* The two moves that generate every order of a list: exchange the first two
\* entries, or move the first entry to the end.
SwapFirst(s) ==
  IF Len(s) < 2 THEN s ELSE <<s[2], s[1]>> \o SubSeq(s, 3, Len(s))
Rotate(s) ==
  IF Len(s) < 2 THEN s ELSE Append(SubSeq(s, 2, Len(s)), s[1])

\* The caller passes the same candidates in another order and the selector is
\* called again.
Shuffle ==
  /\ selResult # NotRun
  /\ Len(selInput) >= 2
  /\ selInput' \in {SwapFirst(selInput), Rotate(selInput)}
  /\ selResult' = selectCanonicalAnchor(selInput')
  /\ UNCHANGED <<selBase, contVars, cronVars, wpVars, vfVars, laterVars>>

SelNext == RunSelect \/ Shuffle

SelectInit ==
  SelInit /\ ContIdle /\ CronIdle /\ WpIdle /\ VfIdle /\ LaterIdle

SpecSelect == SelectInit /\ [][SelNext]_vars

\* --------------------------------------------- continuity: the steps

ContInit ==
  /\ contLatest \in ContinuityPool
  /\ contIncoming \in ContinuityPool
  /\ contResult = <<>>

RunContinuous ==
  /\ contResult = <<>>
  /\ contResult' = <<isContinuousNextAnchor(contLatest, contIncoming)>>
  /\ UNCHANGED <<contLatest, contIncoming, selVars, cronVars, wpVars, vfVars,
                 laterVars>>

ContNext == RunContinuous

ContinuityInit ==
  ContInit /\ SelIdle /\ CronIdle /\ WpIdle /\ VfIdle /\ LaterIdle

SpecContinuity == ContinuityInit /\ [][ContNext]_vars

\* ------------------------------------------------- cron handler: the steps

CronInit ==
  /\ now = 0
  /\ cronSecret \in Secrets
  /\ ledger = <<>>
  /\ txs = [s \in Invocations |-> "none"]
  /\ inv = [i \in Invocations |-> IdleInvocation]

Respond(i, status, body) ==
  inv' = [inv EXCEPT ![i].pc = "done",
                     ![i].response = [status |-> status, body |-> body]]

Running(i) == inv[i].pc \notin {"idle", "done"}

\* GET is called: the two guards on CRON_SECRET and the Authorization header.
\* Invocations are numbered in the order they arrive.
Start(i) ==
  /\ inv[i].pc = "idle"
  /\ \A k \in Invocations : k < i => inv[k].pc # "idle"
  /\ \E h \in Headers(cronSecret) :
       LET refusal == AuthStatus(cronSecret, h)
           entered == [inv[i] EXCEPT
                         !.authHeader = h,
                         !.t0 = now,
                         !.after = {k \in Invocations : inv[k].pc = "done"},
                         !.during = {k \in Invocations : Running(k)}]
       IN  inv' = [inv EXCEPT ![i] =
                     IF refusal = 503
                       THEN [entered EXCEPT
                               !.pc = "done",
                               !.response =
                                 [status |-> 503,
                                  body |-> "CRON_SECRET not configured"]]
                     ELSE IF refusal = 401
                       THEN [entered EXCEPT
                               !.pc = "done",
                               !.response =
                                 [status |-> 401, body |-> "Unauthorized"]]
                     ELSE [entered EXCEPT !.pc = "read"]]
  /\ UNCHANGED <<now, cronSecret, ledger, txs, selVars, contVars, wpVars, vfVars,
                 laterVars>>

\* await readLatestAnchor() resolves; the freshness gate follows at once.
ReadTip(i) ==
  /\ inv[i].pc = "read"
  /\ LET latest == readLatestAnchor(ledger)
     IN  inv' = [inv EXCEPT ![i] =
                   [@ EXCEPT
                      !.accessed = TRUE,
                      !.latest = latest,
                      !.gateNow = now,
                      !.pc = IF Stale(latest, now) THEN "entropy" ELSE "done",
                      !.response =
                        IF Stale(latest, now) THEN @
                        ELSE [status |-> 200, body |-> "skipped"]]]
  /\ UNCHANGED <<now, cronSecret, ledger, txs, selVars, contVars, wpVars, vfVars,
                 laterVars>>

\* await readLatestAnchor() rejects: the RPC node is unavailable.
ReadTipFails(i) ==
  /\ inv[i].pc = "read"
  /\ inv' = [inv EXCEPT ![i] =
               [@ EXCEPT !.accessed = TRUE,
                         !.pc = "done",
                         !.response =
                           [status |-> 500, body |-> "read failed"]]]
  /\ UNCHANGED <<now, cronSecret, ledger, txs, selVars, contVars, wpVars, vfVars,
                 laterVars>>

\* await getFinalizedBlockhash() resolves with a blockhash or with null; the
\* handler refuses on null and builds newAnchor otherwise.
FetchEntropy(i) ==
  /\ inv[i].pc = "entropy"
  /\ \E e \in {None} \cup {Some(x) : x \in Entropies} :
       inv' = [inv EXCEPT ![i] =
                 IF EntropyUnavailable(e)
                   THEN [@ EXCEPT
                           !.fetched = TRUE,
                           !.solanaEntropy = e,
                           !.pc = "done",
                           !.response =
                             [status |-> 503,
                              body |-> "Solana entropy unavailable"]]
                   ELSE [@ EXCEPT
                           !.fetched = TRUE,
                           !.solanaEntropy = e,
                           !.newAnchor = NewAnchor(inv[i].latest, e, now),
                           !.pc = "send"]]
  /\ UNCHANGED <<now, cronSecret, ledger, txs, selVars, contVars, wpVars, vfVars,
                 laterVars>>

\* sendAnchorMemo up to sendRawTransaction: the transaction is on its way and
\* the polling loop starts.
SendTx(i) ==
  /\ inv[i].pc = "send"
  /\ txs' = [txs EXCEPT ![i] = "sent"]
  /\ inv' = [inv EXCEPT ![i] =
               [@ EXCEPT !.pc = "poll", !.start = now, !.wake = now]]
  /\ UNCHANGED <<now, cronSecret, ledger, selVars, contVars, wpVars, vfVars,
                 laterVars>>

\* getLatestBlockhash or sendRawTransaction rejects: nothing was sent.
SendTxFails(i) ==
  /\ inv[i].pc = "send"
  /\ Respond(i, 500, "send failed")
  /\ UNCHANGED <<now, cronSecret, ledger, txs, selVars, contVars, wpVars, vfVars,
                 laterVars>>

\* One pass of  while (Date.now() - start < timeoutMs)  in sendAndConfirmTx,
\* taken when the sleep of the pass before is over.
Poll(i) ==
  /\ inv[i].pc = "poll"
  /\ now >= inv[i].wake
  /\ LET elapsed == now - inv[i].start
         outcome == PollOutcome(txs[i])
     IN  inv' = [inv EXCEPT ![i] =
                   IF ~(elapsed < timeoutMs)
                     THEN [@ EXCEPT
                             !.pc = "done",
                             !.response =
                               [status |-> 500,
                                body |-> "Transaction confirmation timeout"]]
                   ELSE IF outcome = "throw"
                     THEN [@ EXCEPT
                             !.lastStatus = txs[i],
                             !.pc = "done",
                             !.response =
                               [status |-> 500, body |-> "Transaction failed"]]
                   ELSE IF outcome = "return"
                     THEN [@ EXCEPT
                             !.lastStatus = txs[i],
                             !.pc = "gettx"]
                   ELSE [@ EXCEPT
                           !.lastStatus = txs[i],
                           !.wake = now + pollIntervalMs]]
  /\ UNCHANGED <<now, cronSecret, ledger, txs, selVars, contVars, wpVars, vfVars,
                 laterVars>>

\* getSignatureStatuses rejects inside the loop: the error leaves
\* sendAndConfirmTx and the handler answers 500.
PollFails(i) ==
  /\ inv[i].pc = "poll"
  /\ now >= inv[i].wake
  /\ now - inv[i].start < timeoutMs
  /\ Respond(i, 500, "status failed")
  /\ UNCHANGED <<now, cronSecret, ledger, txs, selVars, contVars, wpVars, vfVars,
                 laterVars>>

\* getTransaction resolves and the handler answers "generated".
GetTransaction(i) ==
  /\ inv[i].pc = "gettx"
  /\ Respond(i, 200, "generated")
  /\ UNCHANGED <<now, cronSecret, ledger, txs, selVars, contVars, wpVars, vfVars,
                 laterVars>>

\* getTransaction rejects after sendAndConfirmTx has returned.
GetTransactionFails(i) ==
  /\ inv[i].pc = "gettx"
  /\ Respond(i, 500, "getTransaction failed")
  /\ UNCHANGED <<now, cronSecret, ledger, txs, selVars, contVars, wpVars, vfVars,
                 laterVars>>

\* ----------------------------------------------------- the ledger's steps

LedgerProcesses(s) ==
  /\ txs[s] = "sent"
  /\ txs' = [txs EXCEPT ![s] = "processed"]
  /\ UNCHANGED <<now, cronSecret, ledger, inv, selVars, contVars, wpVars, vfVars,
                 laterVars>>

LedgerConfirms(s) ==
  /\ txs[s] = "processed"
  /\ txs' = [txs EXCEPT ![s] = "confirmed"]
  /\ UNCHANGED <<now, cronSecret, ledger, inv, selVars, contVars, wpVars, vfVars,
                 laterVars>>

\* The transaction is finalized: it is now among the wallet's finalized
\* signatures, with its memo.
LedgerFinalizes(s) ==
  /\ txs[s] = "confirmed"
  /\ txs' = [txs EXCEPT ![s] = "finalized"]
  /\ ledger' = Append(ledger,
                 [signature |-> s,
                  memo |-> RpcMemo(AnchorMemoJson(inv[s].newAnchor))])
  /\ UNCHANGED <<now, cronSecret, inv, selVars, contVars, wpVars, vfVars,
                 laterVars>>

\* The transaction fails on the ledger: its status carries err.
LedgerRejects(s) ==
  /\ txs[s] = "sent"
  /\ txs' = [txs EXCEPT ![s] = "failed"]
  /\ UNCHANGED <<now, cronSecret, ledger, inv, selVars, contVars, wpVars, vfVars,
                 laterVars>>

TimestampSignatures == {ledger[k].signature : k \in 1..Len(ledger)} \ Invocations

\* POST /api/v1/beat/timestamp publishes a timestamp memo with the same
\* wallet; the endpoint needs an anchor to bind to.  Seen from the cron
\* handler it is one more finalized signature of the wallet.
TimestampPublished ==
  /\ Cardinality(TimestampSignatures) < MaxTimestamps
  /\ LET anchor == readLatestAnchor(ledger)
     IN  /\ anchor # NULL
         /\ ledger' = Append(ledger,
                        [signature |-> MaxInvocations + Len(ledger) + 1,
                         memo |-> RpcMemo(TimestampMemoJson(
                                    HashA, anchor, now))])
  /\ UNCHANGED <<now, cronSecret, txs, inv, selVars, contVars, wpVars, vfVars,
                 laterVars>>

\* The clock moves on by one tick.  An RPC call is answered well within a
\* tick, so the clock moves only while every running invocation sleeps in
\* its polling loop.
Tick ==
  /\ now < MaxTicks * TickMs
  /\ \A i \in Invocations :
       Running(i) => inv[i].pc = "poll" /\ inv[i].wake > now
  /\ now' = now + TickMs
  /\ UNCHANGED <<cronSecret, ledger, txs, inv, selVars, contVars, wpVars, vfVars,
                 laterVars>>

Next ==
  \/ \E i \in Invocations :
       \/ Start(i)
       \/ ReadTip(i)
       \/ ReadTipFails(i)
       \/ FetchEntropy(i)
       \/ SendTx(i)
       \/ SendTxFails(i)
       \/ Poll(i)
       \/ PollFails(i)
       \/ GetTransaction(i)
       \/ GetTransactionFails(i)
  \/ \E s \in Invocations :
       \/ LedgerProcesses(s)
       \/ LedgerConfirms(s)
       \/ LedgerFinalizes(s)
       \/ LedgerRejects(s)
  \/ TimestampPublished
  \/ Tick

Init ==
  CronInit /\ SelIdle /\ ContIdle /\ WpIdle /\ VfIdle /\ LaterIdle

Spec == Init /\ [][Next]_vars

\* --------------------------------------------------- work-proof: the steps

WorkProofInit ==
  /\ now = WorkProofEpoch
  /\ cronSecret = None
  /\ ledger \in {<<>>, SubSeq(PublishedLedger, 1, PublishedAnchors)}
  /\ txs = [s \in Invocations |-> "none"]
  /\ inv = [i \in Invocations |-> IdleInvocation]
  /\ limiterMap \in
       {NoEntries,
        [ip \in {ClientIp} |->
           [count |-> WorkProofMaxRequests - 1,
            resetAt |-> WorkProofEpoch + WorkProofWindowMs]]}
  /\ anchorCache = NULL
  /\ wp = IdleWorkProof
  /\ served = 0

\* A handler that goes from the structural validation straight to the tip.
AnswerBeforeTip_SkipsLogic(req) ==
  IF ~ContentTypeIsJson(req.contentType)
    THEN JsonResponse(415, "Content-Type must be application/json")
  ELSE IF req.body = BadJson THEN JsonResponse(400, "Invalid JSON body")
  ELSE IF StructuralError(WorkProofFields(req.body)) # ""
    THEN JsonResponse(400, StructuralError(WorkProofFields(req.body)))
  ELSE NoResponse

\* What POST answers before it reads the tip: the response, or NoResponse
\* when the request goes on to the freshness check.
AnswerBeforeTip(req) ==
  IF ~ContentTypeIsJson(req.contentType)
    THEN JsonResponse(415, "Content-Type must be application/json")
  ELSE IF req.body = BadJson THEN JsonResponse(400, "Invalid JSON body")
  ELSE LET x == WorkProofFields(req.body)
       IN  IF StructuralError(x) # ""
             THEN JsonResponse(400, StructuralError(x))
           ELSE IF EarlyLogicReason(x) # ""
             THEN invalid(EarlyLogicReason(x))
           ELSE NoResponse

\* AnswerBeforeTip and the extracted fields of every request sent.
AnswersBeforeTip ==
  [k \in DOMAIN WorkProofRequests |-> AnswerBeforeTip(WorkProofRequests[k])]

FieldsOfRequest ==
  [k \in DOMAIN WorkProofRequests |->
     IF AnswersBeforeTip[k] = NoResponse
       THEN WorkProofFields(WorkProofRequests[k].body) ELSE NULL]

\* POST from its first line to `await readLatestAnchorCached(10_000)`, on
\* request k.
WpReceive(k) ==
  /\ wp.pc \in {"idle", "done"}
  /\ served < MaxServed
  /\ LET req == WorkProofRequests[k]
         rl == RateLimiterCheck(limiterMap, req.ip, now,
                                WorkProofMaxRequests, WorkProofWindowMs)
         answer == IF rl.allowed THEN AnswersBeforeTip[k]
                   ELSE rateLimitResponse(rl.resetAt)
     IN  /\ limiterMap' = rl.map
         /\ wp' = [IdleWorkProof EXCEPT
                     !.pc = IF answer = NoResponse THEN "tip" ELSE "done",
                     !.req = k,
                     !.response = answer]
  /\ served' = served + 1
  /\ UNCHANGED <<anchorCache, selVars, contVars, cronVars, vfVars, laterVars>>

\* POST from the answer of readLatestAnchorCached to its return.
AnswerAfterTip(currentAnchor, read, tip) ==
  LET x == FieldsOfRequest[wp.req]
      difficulty == ClampedDifficulty(x)
      failed == FailedSpotChecks(x, difficulty)
      receiptPayload == ReceiptPayload(x, difficulty, now)
      seen == [wp EXCEPT !.pc = "done", !.currentAnchor = currentAnchor,
                         !.read = read, !.tip = tip]
  IN  IF StaleAnchor(currentAnchor, x.anchorIndex.n)
        THEN [seen EXCEPT !.response = invalid("stale_anchor")]
      ELSE IF failed # {}
        THEN [seen EXCEPT !.response = invalid("spot_check_failed"),
                          !.verified = {difficulty}]
      ELSE [seen EXCEPT
              !.verified = {difficulty},
              !.signed = <<receiptPayload>>,
              !.response =
                [status |-> 200, valid |-> TRUE,
                 receipt |-> With(receiptPayload, "signature",
                    signWorkProofReceipt(receiptPayload).signature_base64)]]

CacheFresh == anchorCache # NULL /\ now < anchorCache.expiresAt

\* readLatestAnchorCached answers from the cache.
WpCacheHit ==
  /\ wp.pc = "tip"
  /\ CacheFresh
  /\ wp' = AnswerAfterTip(anchorCache.value, "cache", readLatestAnchor(ledger))
  /\ UNCHANGED <<limiterMap, anchorCache, served, selVars, contVars, cronVars, vfVars,
                 laterVars>>

\* readLatestAnchorCached reads the ledger and fills the cache.
WpReadTip ==
  /\ wp.pc = "tip"
  /\ ~CacheFresh
  /\ LET latest == readLatestAnchor(ledger)
     IN  /\ anchorCache' = [value |-> latest,
                            expiresAt |-> now + AnchorCacheTtlMs]
         /\ wp' = AnswerAfterTip(latest, "ledger", latest)
  /\ UNCHANGED <<limiterMap, served, selVars, contVars, cronVars, vfVars,
                 laterVars>>

\* readLatestAnchor throws; the handler catches and goes on without a tip.
WpReadTipFails ==
  /\ wp.pc = "tip"
  /\ ~CacheFresh
  /\ wp' = AnswerAfterTip(NULL, "failed", readLatestAnchor(ledger))
  /\ UNCHANGED <<limiterMap, anchorCache, served, selVars, contVars, cronVars, vfVars,
                 laterVars>>

\* The cron handler's next anchor is finalized.
WpAnchorLands ==
  /\ \/ Len(ledger) < MaxLandings
     \/ /\ Len(ledger) >= PublishedAnchors
        /\ Len(ledger) < PublishedAnchors + MaxLandings
  /\ ledger' = Append(ledger, PublishedLedger[Len(ledger) + 1])
  /\ UNCHANGED <<now, cronSecret, txs, inv, wpVars, selVars, contVars, vfVars,
                 laterVars>>

\* The clock moves on by one tick while no request waits for the tip.
WpTick ==
  /\ now < WorkProofEpoch + MaxTicks * TickMs
  /\ wp.pc # "tip"
  /\ now' = now + TickMs
  /\ UNCHANGED <<cronSecret, ledger, txs, inv, wpVars, selVars, contVars, vfVars,
                 laterVars>>

WpNext ==
  \/ \E k \in DOMAIN WorkProofRequests : WpReceive(k)
  \/ WpCacheHit
  \/ WpReadTip
  \/ WpReadTipFails
  \/ WpAnchorLands
  \/ WpTick

WorkProofStart ==
  WorkProofInit /\ SelIdle /\ ContIdle /\ VfIdle /\ LaterIdle

SpecWorkProof == WorkProofStart /\ [][WpNext]_vars

\* ------------------------------------------------------- verify: the steps

VerifyInit ==
  /\ now = 0
  /\ cronSecret = None
  /\ ledger = <<>>
  /\ txs = [s \in Invocations |-> "none"]
  /\ inv = [i \in Invocations |-> IdleInvocation]
  /\ verifyLimiterMap = NoEntries
  /\ vf = IdleVerify

\* The limiter has counted no request of the client beyond the first it
\* turned away in the window.
WithinCount ==
  IF verifyLimiterMap[ClientIp] = NULL THEN TRUE
  ELSE \/ verifyLimiterMap[ClientIp].count <= VerifyMaxRequests
       \/ now >= verifyLimiterMap[ClientIp].resetAt

\* POST /api/v1/beat/verify on body k.
VfPost(k) ==
  /\ WithinCount
  /\ LET rl == RateLimiterCheck(verifyLimiterMap, ClientIp, now,
                                VerifyMaxRequests, VerifyWindowMs)
         handled == IF rl.allowed THEN VerifyAnswers[k]
                    ELSE Unverified(rateLimitResponse(rl.resetAt))
     IN  /\ verifyLimiterMap' = rl.map
         /\ vf' = [req |-> k, response |-> handled.response,
                   recomputedAt |-> handled.recomputedAt,
                   sampled |-> handled.sampled]
  /\ UNCHANGED <<selVars, contVars, cronVars, wpVars, laterVars>>

\* The clock moves on by one tick.
VfTick ==
  /\ now < MaxTicks * TickMs
  /\ now' = now + TickMs
  /\ UNCHANGED <<cronSecret, ledger, txs, inv, selVars, contVars, wpVars,
                 vfVars,
                 laterVars>>

VfNext ==
  \/ \E k \in DOMAIN VerifyBodies : VfPost(k)
  \/ VfTick

VerifyStart ==
  VerifyInit /\ SelIdle /\ ContIdle /\ WpIdle /\ LaterIdle

SpecVerify == VerifyStart /\ [][VfNext]_vars

\* ---------------------------------------------------- timestamp: the steps

\* The endpoint starts with an empty cache.  Where no token is configured
\* its limiters are empty; where one is, the client has sent ServedBefore
\* requests with it since the day's window opened, and the minute's window
\* has run out.  The ledger holds the published anchors or none.
TimestampInit ==
  /\ now = WorkProofEpoch
  /\ cronSecret = None
  /\ ledger \in {<<>>, SubSeq(PublishedLedger, 1, PublishedAnchors)}
  /\ txs = [s \in Invocations |-> "none"]
  /\ inv = [i \in Invocations |-> IdleInvocation]
  /\ limiterMap = NoEntries
  /\ anchorCache = NULL
  /\ wp = IdleWorkProof
  /\ served = 0
  /\ proTierToken \in {None, Some(ProToken)}
  /\ tsLimiters =
       IF proTierToken = None \/ ledger = <<>> THEN NoLimiterEntries
       ELSE [NoLimiterEntries EXCEPT
               !.proDailyLimiter[ClientIp] =
                 [count |-> ServedBefore,
                  resetAt |-> WorkProofEpoch + DayMs
                                - MinutesBefore * MinuteMs]]
  /\ ts = IdleTimestamp
  /\ tsPublished =
       [name \in LimiterNames |->
          IF name = "proDailyLimiter" /\ tsLimiters[name][ClientIp] # NULL
            THEN ServedBefore ELSE 0]

\* The calls a limiter has counted for the client in its current window.
Counted(name) ==
  IF tsLimiters[name][ClientIp] = NULL THEN 0
  ELSE IF now >= tsLimiters[name][ClientIp].resetAt THEN 0
  ELSE tsLimiters[name][ClientIp].count

UsedUp(name) == Counted(name) >= LimiterOptions[name].maxRequests

\* The limiter has counted no request of the client beyond the first it
\* turned away in the window.
TsWithinCount(name) == Counted(name) <= LimiterOptions[name].maxRequests

Elapsed == now - WorkProofEpoch

\* The requests a daily limiter has let in today that published nothing.
Unpublished(name) ==
  IF Counted(name) = 0 THEN 0 ELSE Counted(name) - tsPublished[name]

\* POST /api/v1/beat/timestamp on request k, its awaited calls ending as
\* fate says: the first request of each tier is sent with every fate, the
\* others with all calls resolving.  The ledger keeps the anchors only:
\* readLatestAnchor passes over the timestamp memos, which are kept in
\* ts.effects and counted in tsPublished for every limiter window the
\* request was let into.
TsPost(k, fate) ==
  /\ \A name \in LimiterNames : TsWithinCount(name)
  /\ fate # "ok" => k \in {1, Len(FreeRequests) + 1}
  /\ \E r \in {TimestampPost(tsLimiters, proTierToken, anchorCache, now,
                             TimestampRequests[k], TimestampValidations[k],
                             IF ledger = <<>> THEN NULL ELSE PublishedTip,
                             fate)} :
       /\ (proTierToken # None /\ r.tier = "free")
            => (k \in Downgraded /\ Counted("dailyLimiter") < MaxDowngraded)
       /\ (r.effects.passed /\ ~r.effects.published)
            => Unpublished(IF r.tier = "pro" THEN "proDailyLimiter"
                           ELSE "dailyLimiter") < MaxUnpublished
       /\ tsLimiters' = r.limiters
       /\ anchorCache' = r.cache
       /\ ts' = [req |-> k, fate |-> fate, tier |-> r.tier,
                 response |-> r.response, effects |-> r.effects]
       /\ tsPublished' =
            [name \in LimiterNames |->
               IF r.limiters[name] = tsLimiters[name]
                 THEN tsPublished[name]
               ELSE (IF r.limiters[name][ClientIp].count = 1 THEN 0
                     ELSE tsPublished[name])
                    + (IF r.effects.published THEN 1 ELSE 0)]
  /\ UNCHANGED <<limiterMap, wp, served, proTierToken, cronVars, selVars,
                 contVars, vfVars, tsOthers>>

\* A minute passes, once the client has used up the minute's quota.
TsMinutePasses ==
  /\ Elapsed % DayMs < MaxMinutes * MinuteMs
  /\ IF proTierToken = None THEN UsedUp("limiter") ELSE UsedUp("proLimiter")
  /\ now' = now + MinuteMs
  /\ UNCHANGED <<cronSecret, ledger, txs, inv, wpVars, selVars, contVars,
                 vfVars, tsVars, tsOthers>>

\* A day passes, once the client has used up the day's quota.
TsDayPasses ==
  /\ Elapsed < DayMs
  /\ IF proTierToken = None THEN UsedUp("dailyLimiter")
     ELSE UsedUp("proDailyLimiter")
  /\ now' = now + DayMs
  /\ UNCHANGED <<cronSecret, ledger, txs, inv, wpVars, selVars, contVars,
                 vfVars, tsVars, tsOthers>>

TsNext ==
  \/ \E k \in DOMAIN TimestampRequests : \E fate \in Fates : TsPost(k, fate)
  \/ TsMinutePasses
  \/ TsDayPasses

TimestampStart ==
  TimestampInit /\ SelIdle /\ ContIdle /\ VfIdle /\ RlIdle /\ AcIdle
    /\ SdkIdle /\ FinalIdle

SpecTimestamp == TimestampStart /\ [][TsNext]_vars

\* ------------------------------------------------- a RateLimiter: the steps

RateLimiterInit ==
  /\ now = WorkProofEpoch
  /\ cronSecret = None
  /\ ledger = <<>>
  /\ txs = [s \in Invocations |-> "none"]
  /\ inv = [i \in Invocations |-> IdleInvocation]
  /\ rlMap = [key \in RlKeys |-> NULL]
  /\ rlCrowd = <<>>
  /\ rlLast = NoCall
  /\ rlAllowed = [key \in RlKeys |-> 0]

\* check(key).  A key stops calling once check has refused it twice in the
\* window.
RlCheck(key) ==
  /\ IF rlMap[key] = NULL THEN TRUE
     ELSE \/ now >= rlMap[key].resetAt
          \/ rlMap[key].count <= RlOptions.maxRequests + 1
  /\ \E r \in {RateLimiterCheck(rlMap, key, now, RlOptions.maxRequests,
                                RlOptions.windowMs)} :
       /\ rlMap' = r.map
       /\ rlLast' = [key |-> key, t |-> now, before |-> rlMap[key],
                     after |-> r.map[key], allowed |-> r.allowed,
                     remaining |-> r.remaining, resetAt |-> r.resetAt]
       /\ rlAllowed' =
            [rlAllowed EXCEPT
               ![key] = (IF r.map[key].count = 1 THEN 0 ELSE @)
                        + (IF r.allowed THEN 1 ELSE 0)]
  /\ UNCHANGED <<rlCrowd, cronVars, selVars, contVars, wpVars, vfVars,
                 rlOthers>>

\* n keys the limiter has no entry of call check once each.
RlCrowdChecks(n) ==
  /\ Len(rlCrowd) < MaxCrowds
  /\ rlCrowd' = Append(rlCrowd, [keys |-> n,
                                 resetAt |-> now + RlOptions.windowMs])
  /\ UNCHANGED <<rlMap, rlLast, rlAllowed, cronVars, selVars, contVars,
                 wpVars, vfVars, rlOthers>>

\* The interval timer of the constructor fires: cleanup().
RlCleanup ==
  /\ rlMap' = cleanup(rlMap, now)
  /\ rlCrowd' = SelectSeq(rlCrowd, LAMBDA g : ~(now >= g.resetAt))
  /\ UNCHANGED <<rlLast, rlAllowed, cronVars, selVars, contVars, wpVars,
                 vfVars, rlOthers>>

\* Half a window passes.
RlTick ==
  /\ now < WorkProofEpoch + MaxRlTicks * (RlOptions.windowMs \div 2)
  /\ now' = now + RlOptions.windowMs \div 2
  /\ UNCHANGED <<cronSecret, ledger, txs, inv, rlVars, selVars, contVars,
                 wpVars, vfVars, rlOthers>>

RlNext ==
  \/ \E key \in RlKeys : RlCheck(key)
  \/ \E n \in CrowdSizes : RlCrowdChecks(n)
  \/ RlCleanup
  \/ RlTick

RateLimiterStart ==
  RateLimiterInit /\ SelIdle /\ ContIdle /\ WpIdle /\ VfIdle /\ TsIdle
    /\ AcIdle /\ SdkIdle /\ FinalIdle

SpecRateLimiter == RateLimiterStart /\ [][RlNext]_vars

\* --------------------------------------- readLatestAnchorCached: the steps

AnchorCacheInit ==
  /\ now = WorkProofEpoch
  /\ cronSecret = None
  /\ ledger = SubSeq(PublishedLedger, 1, PublishedAnchors)
  /\ txs = [s \in Invocations |-> "none"]
  /\ inv = [i \in Invocations |-> IdleInvocation]
  /\ limiterMap = NoEntries
  /\ anchorCache = NULL
  /\ wp = IdleWorkProof
  /\ served = 0
  /\ acCallers = [c \in AcCallers |-> IdleCaller]
  /\ acProduced = 0
  /\ acRead = 0

\* readLatestAnchorCached(10_000) from its first line to the return of the
\* cached value or to `await readLatestAnchor()`.
AcCall(c) ==
  /\ acCallers[c].pc \in {"idle", "done"}
  /\ acCallers' =
       [acCallers EXCEPT ![c] =
          IF CacheHit(anchorCache, now)
            THEN [IdleCaller EXCEPT
                    !.pc = "done", !.start = now, !.seen = anchorCache,
                    !.from = "cache", !.value = anchorCache.value,
                    !.produced = acProduced, !.before = anchorCache,
                    !.after = anchorCache]
            ELSE [IdleCaller EXCEPT
                    !.pc = "reading", !.start = now, !.seen = anchorCache,
                    !.read = TRUE]]
  /\ UNCHANGED <<limiterMap, anchorCache, wp, served, acProduced, acRead, cronVars,
                 selVars, contVars, vfVars, acOthers>>

\* The RPC node answers getSignaturesForAddress from the ledger as it is;
\* the answer is on its way to the caller.
AcLedgerAnswers(c) ==
  /\ acCallers[c].pc = "reading"
  /\ acCallers' =
       [acCallers EXCEPT
          ![c] = [@ EXCEPT !.pc = "answered", !.at = Len(ledger),
                           !.tip = TipAfter[Len(ledger)]]]
  /\ UNCHANGED <<limiterMap, anchorCache, wp, served, acProduced, acRead,
                 cronVars, selVars, contVars, vfVars, acOthers>>

\* readLatestAnchor resolves, and the caller stores and returns its value.
AcReadResolves(c) ==
  /\ acCallers[c].pc = "answered"
  /\ acRead' = acCallers[c].at
  /\ \E entry \in {CacheFill(acCallers[c].tip, acCallers[c].start, now,
                              AnchorCacheTtlMs)} :
       /\ anchorCache' = entry
       /\ acCallers' =
            [acCallers EXCEPT
               ![c] = [@ EXCEPT !.pc = "done", !.from = "ledger",
                                !.value = entry.value,
                                !.produced = acCallers[c].start,
                                !.wrote = entry, !.before = anchorCache,
                                !.after = entry]]
  /\ acProduced' = acCallers[c].start
  /\ UNCHANGED <<limiterMap, wp, served, cronVars, selVars, contVars, vfVars,
                 acOthers>>

\* readLatestAnchor rejects, and so does the call.
AcReadFails(c) ==
  /\ acCallers[c].pc \in {"reading", "answered"}
  /\ UNCHANGED <<limiterMap, anchorCache, wp, served, acProduced, acRead, cronVars,
                 selVars, contVars, vfVars, acOthers>>
  /\ acCallers' =
       [acCallers EXCEPT
          ![c] = [@ EXCEPT !.pc = "done", !.from = "failed",
                           !.before = anchorCache, !.after = anchorCache']]

\* The cron handler's next anchor is finalized.
AcAnchorLands ==
  /\ Len(ledger) < PublishedAnchors + MaxLandings
  /\ ledger' = Append(ledger, PublishedLedger[Len(ledger) + 1])
  /\ UNCHANGED <<now, cronSecret, txs, inv, wpVars, selVars, contVars, vfVars,
                 acVars, acOthers>>

\* Half the time to live passes, whether a read is under way or not.
AcTick ==
  /\ now < WorkProofEpoch + MaxAcTicks * (AnchorCacheTtlMs \div 2)
  /\ now' = now + AnchorCacheTtlMs \div 2
  /\ UNCHANGED <<cronSecret, ledger, txs, inv, wpVars, selVars, contVars,
                 vfVars, acVars, acOthers>>

AcNext ==
  \/ \E c \in AcCallers : AcCall(c)
  \/ \E c \in AcCallers : AcLedgerAnswers(c)
  \/ \E c \in AcCallers : AcReadResolves(c)
  \/ \E c \in AcCallers : AcReadFails(c)
  \/ AcAnchorLands
  \/ AcTick

AnchorCacheStart ==
  AnchorCacheInit /\ SelIdle /\ ContIdle /\ VfIdle /\ TsIdle /\ RlIdle
    /\ SdkIdle /\ FinalIdle

SpecAnchorCache == AnchorCacheStart /\ [][AcNext]_vars

\* ------------------------------------------------ beats client: the steps

\* The client as createBeatsClient() returns it, no state loaded.
ClientInit ==
  /\ now = 0
  /\ cronSecret = None
  /\ ledger = <<>>
  /\ txs = [s \in Invocations |-> "none"]
  /\ inv = [i \in Invocations |-> IdleInvocation]
  /\ sdkLastAnchor = NULL
  /\ sdkBroken = FALSE
  /\ sdkCalls = [c \in SdkCallers |-> IdleCall]
  /\ sdkRequests = 0
  /\ sdkLast = NoStep

SdkRest == <<cronVars, selVars, contVars, wpVars, vfVars, sdkOthers>>

\* getAnchor(opts) from its first line to `await request(...)`.
SdkGetAnchor(c, opts) ==
  /\ sdkCalls[c].pc \in {"idle", "done"}
  /\ sdkBroken \/ sdkRequests < MaxAnchorRequests
  /\ IF sdkBroken
       THEN /\ sdkCalls' = [sdkCalls EXCEPT
                              ![c] = [IdleCall EXCEPT
                                        !.pc = "done", !.broken = TRUE,
                                        !.threw = "CHAIN_BROKEN"]]
            /\ UNCHANGED sdkRequests
       ELSE /\ sdkCalls' = [sdkCalls EXCEPT
                              ![c] = [IdleCall EXCEPT
                                        !.pc = "requested", !.opts = opts]]
            /\ sdkRequests' = sdkRequests + 1
  /\ UNCHANGED <<sdkLastAnchor, sdkBroken, sdkLast, SdkRest>>

\* The request fails (no response in time, or a status that is not ok), and
\* getAnchor throws its error.
SdkRequestFails(c) ==
  /\ sdkCalls[c].pc = "requested"
  /\ sdkCalls' = [sdkCalls EXCEPT
                    ![c] = [IdleCall EXCEPT !.pc = "done", !.threw = "HTTP"]]
  /\ UNCHANGED <<sdkLastAnchor, sdkBroken, sdkRequests, sdkLast, SdkRest>>

\* getAnchor from the response to its return, or to the await of the
\* verification that opts asks for.
SdkResponse(c, anchor) ==
  /\ sdkCalls[c].pc = "requested"
  /\ \E error \in {ContinuityError(anchor, sdkLastAnchor)} :
       LET returned == [IdleCall EXCEPT !.pc = "done", !.anchor = anchor]
       IN  /\ sdkBroken' = IF error # "" THEN TRUE ELSE sdkBroken
           /\ sdkCalls' =
                [sdkCalls EXCEPT
                   ![c] = IF error # ""
                            THEN [returned EXCEPT !.threw = error]
                          ELSE IF sdkCalls[c].opts = "verify"
                            THEN [sdkCalls[c] EXCEPT
                                    !.pc = "verifying", !.anchor = anchor,
                                    !.known = sdkLastAnchor,
                                    !.broken = sdkBroken]
                          ELSE returned]
           /\ sdkLastAnchor' =
                IF error = "" /\ sdkCalls[c].opts # "verify"
                  THEN Updated(anchor, sdkLastAnchor) ELSE sdkLastAnchor
  /\ UNCHANGED <<sdkRequests, sdkLast, SdkRest>>

\* getAnchor from the end of the verification to its return: verifyAnchor
\* or recomputeAnchorHash has answered ok.  Verifying a response without an
\* anchor fails.
SdkVerified(c, ok) ==
  /\ sdkCalls[c].pc = "verifying"
  /\ sdkCalls[c].anchor = NULL => ~ok
  /\ sdkCalls' =
       [sdkCalls EXCEPT
          ![c] = [IdleCall EXCEPT
                    !.pc = "done", !.anchor = sdkCalls[c].anchor,
                    !.threw = IF ok THEN "" ELSE "verification failed"]]
  /\ sdkLastAnchor' =
       IF ok THEN Updated(sdkCalls[c].anchor, sdkLastAnchor)
       ELSE sdkLastAnchor
  /\ UNCHANGED <<sdkBroken, sdkRequests, sdkLast, SdkRest>>

\* setLastKnownAnchor(anchor)
SdkSetLastKnownAnchor(anchor) ==
  /\ \E r \in {setLastKnownAnchor(sdkBroken, sdkLastAnchor, anchor)} :
       /\ sdkLastAnchor' = r.lastAnchor
       /\ sdkLast' = [op |-> "setLastKnownAnchor", arg |-> anchor,
                      threw |-> r.threw]
  /\ UNCHANGED <<sdkBroken, sdkCalls, sdkRequests, SdkRest>>

\* resync(anchor)
SdkResync(anchor) ==
  /\ \E r \in {resync(sdkBroken, sdkLastAnchor, anchor)} :
       /\ sdkLastAnchor' = r.lastAnchor
       /\ sdkBroken' = r.broken
       /\ sdkLast' = [op |-> "resync", arg |-> anchor, threw |-> r.threw]
  /\ UNCHANGED <<sdkCalls, sdkRequests, SdkRest>>

SdkNext ==
  \/ \E c \in SdkCallers : \E opts \in {"none", "verify"} :
       SdkGetAnchor(c, opts)
  \/ \E c \in SdkCallers : SdkRequestFails(c)
  \/ \E c \in SdkCallers : \E anchor \in ServerAnchors \cup {NULL} :
       SdkResponse(c, anchor)
  \/ \E c \in SdkCallers : \E ok \in BOOLEAN : SdkVerified(c, ok)
  \/ \E anchor \in ClientAnchors : SdkSetLastKnownAnchor(anchor)
  \/ \E anchor \in ClientAnchors : SdkResync(anchor)

ClientStart ==
  ClientInit /\ SelIdle /\ ContIdle /\ WpIdle /\ VfIdle /\ TsIdle /\ RlIdle
    /\ AcIdle /\ FinalIdle

SpecClient == ClientStart /\ [][SdkNext]_vars

\* -------------------------------- beats client: receipts and keys, the steps

KeyInit ==
  /\ krPinned \in {NoKey, KeyA}
  /\ krCached = krPinned
  /\ krCalls = [c \in KeyCallers |-> IdleKeyCall]

KeyRest == <<cronVars, selVars, contVars, wpVars, vfVars, keyOthers>>

\* What the call hands back: verifyReceipt its boolean, getAnchor data with
\* _verified_receipt or the error it throws on false.
Outcome(via, ok) ==
  IF ok THEN "true" ELSE IF via = "getAnchor" THEN "threw" ELSE "false"

\* verifyReceipt(response, {publicKey}) up to its return or to the await of
\* _resolveKey; via tells who called it.
ReceiptCall(c, via, response, publicKey) ==
  \E key \in {KeyAtCall(response, publicKey, krCached)} :
    krCalls' =
      [krCalls EXCEPT
         ![c] =
           LET call == [IdleKeyCall EXCEPT
                          !.via = via, !.response = response,
                          !.publicKey = publicKey, !.cached = krCached]
           IN  IF PayloadOf(response) = ""
                  \/ response.signature = NoSignature
                 THEN [call EXCEPT !.pc = "done",
                                   !.result = Outcome(via, FALSE)]
               ELSE IF key # NoKey
                 THEN [call EXCEPT
                         !.pc = "done", !.key = key,
                         !.result =
                           Outcome(via,
                                   verifyEd25519(PayloadOf(response),
                                                 response.signature, key))]
               ELSE [call EXCEPT !.pc = "fetching", !.fetched = TRUE]]

\* The application calls verifyReceipt.
KeyVerifyReceipt(c, k, publicKey) ==
  /\ krCalls[c].pc \in {"idle", "done"}
  /\ ReceiptCall(c, "verifyReceipt", Receipts[k], publicKey)
  /\ UNCHANGED <<krPinned, krCached, KeyRest>>

\* getAnchor({verify: true}) from the response of the anchor endpoint on:
\* verifyAnchor answers false for a body without anchor or receipt and
\* hands the others to verifyReceipt without options.
KeyGetAnchor(c, k) ==
  /\ krCalls[c].pc \in {"idle", "done"}
  /\ IF AnchorResponses[k].anchor = "" \/ ~AnchorResponses[k].receipt
       THEN krCalls' =
              [krCalls EXCEPT
                 ![c] = [IdleKeyCall EXCEPT
                           !.pc = "done", !.via = "getAnchor",
                           !.response = AnchorResponses[k],
                           !.cached = krCached, !.result = "threw"]]
       ELSE ReceiptCall(c, "getAnchor", AnchorResponses[k], NoKey)
  /\ UNCHANGED <<krPinned, krCached, KeyRest>>

\* _resolveKey after `await this.getKey()`: it stores what the key endpoint
\* answered in _cachedKey and returns it, and verifyReceipt verifies with
\* it, or returns false when it is not a key.
KeyFetched(c, answer) ==
  /\ krCalls[c].pc = "fetching"
  /\ krCached' = answer
  /\ krCalls' =
       [krCalls EXCEPT
          ![c] = [@ EXCEPT
                    !.pc = "done", !.key = answer,
                    !.result =
                      Outcome(krCalls[c].via,
                              verifyEd25519(
                                PayloadOf(krCalls[c].response),
                                krCalls[c].response.signature, answer))]]
  /\ UNCHANGED <<krPinned, KeyRest>>

\* getKey rejects: _resolveKey returns null and verifyReceipt false.
KeyFetchFails(c) ==
  /\ krCalls[c].pc = "fetching"
  /\ krCalls' =
       [krCalls EXCEPT
          ![c] = [@ EXCEPT !.pc = "done",
                           !.result = Outcome(krCalls[c].via, FALSE)]]
  /\ UNCHANGED <<krPinned, krCached, KeyRest>>

KeyNext ==
  \/ \E c \in KeyCallers, k \in DOMAIN Receipts, publicKey \in OptionKeys :
       KeyVerifyReceipt(c, k, publicKey)
  \/ \E c \in KeyCallers, k \in DOMAIN AnchorResponses : KeyGetAnchor(c, k)
  \/ \E c \in KeyCallers, answer \in KeyAnswers : KeyFetched(c, answer)
  \/ \E c \in KeyCallers : KeyFetchFails(c)

KeyStart ==
  KeyInit /\ CronIdle /\ SelIdle /\ ContIdle /\ WpIdle /\ VfIdle /\ TsIdle
    /\ RlIdle /\ AcIdle /\ SdkIdle /\ TipIdle /\ RcIdle /\ LcIdle

SpecKey == KeyStart /\ [][KeyNext]_vars

\* ------------------------------------------------- receipts: the steps

RcInit == rc = NoReceipt

RcRest == <<cronVars, selVars, contVars, wpVars, vfVars, rcOthers>>

\* The part of the body the signature covers.
SignedPart(r) ==
  IF r.kind = "timestamp" THEN r.body.timestamp ELSE r.body.receipt

WithSignedPart(r, part) ==
  IF r.kind = "timestamp" THEN [r.body EXCEPT !.timestamp = part]
  ELSE [r.body EXCEPT !.receipt = part]

\* POST /api/v1/beat/timestamp from the memo's confirmation to the answer.
RcTimestampIssued(hashRaw, anchor, timestampUtc) ==
  /\ rc.pc \in {"idle", "verified"}
  /\ \E payload \in
         {TimestampReceiptPayload(hashRaw, anchor, timestampUtc, "tx1")} :
       rc' = [NoReceipt EXCEPT !.pc = "issued", !.kind = "timestamp",
                               !.payload = payload,
                               !.body = TimestampReceiptBody(payload)]
  /\ UNCHANGED RcRest

\* POST /api/v1/beat/work-proof from the last check passed to the answer.
RcWorkProofIssued(beats, difficulty, anchorHash, toHash, utc) ==
  /\ rc.pc \in {"idle", "verified"}
  /\ \E payload \in {WorkProofReceiptPayload(beats, difficulty, anchorHash,
                                             toHash, utc)} :
       rc' = [NoReceipt EXCEPT !.pc = "issued", !.kind = "work_proof",
                               !.payload = payload,
                               !.body = WorkProofReceiptBody(payload)]
  /\ UNCHANGED RcRest

\* On its way the value of one signed field is replaced by another value.
RcFieldAltered(key) ==
  /\ rc.pc = "issued" /\ ~rc.changed
  /\ key \in ObjKeys(rc.payload)
  /\ rc' = [rc EXCEPT
              !.changed = TRUE,
              !.body = WithSignedPart(rc,
                         ObjSet(SignedPart(rc), key,
                                Altered(ObjGet(SignedPart(rc), key))))]
  /\ UNCHANGED RcRest

\* On its way one signed field is taken out.
RcFieldRemoved(key) ==
  /\ rc.pc = "issued" /\ ~rc.changed
  /\ key \in ObjKeys(rc.payload)
  /\ rc' = [rc EXCEPT
              !.changed = TRUE,
              !.body = WithSignedPart(rc, ObjWithout(SignedPart(rc), key))]
  /\ UNCHANGED RcRest

\* The holder's JSON library writes the properties in another order.
RcReordered ==
  /\ rc.pc = "issued" /\ ~rc.reordered
  /\ rc' = [rc EXCEPT !.reordered = TRUE,
                      !.body = WithSignedPart(rc, Reversed(SignedPart(rc)))]
  /\ UNCHANGED RcRest

\* A third party verifies the body under the key GET /api/v1/beat/key
\* publishes for its kind.
RcVerified ==
  /\ rc.pc = "issued"
  /\ rc' = [rc EXCEPT
              !.pc = "verified",
              !.verified =
                IF rc.kind = "timestamp"
                THEN VerifyTimestampReceipt(rc.body,
                                            PublishedKeys.public_key_hex)
                ELSE verifyWorkProofReceipt(rc.body,
                                            PublishedKeys.work_proof)]
  /\ UNCHANGED RcRest

RcNext ==
  \/ \E hashRaw \in ReceiptHashes, anchor \in ReceiptAnchors,
        timestampUtc \in ReceiptTimes :
       RcTimestampIssued(hashRaw, anchor, timestampUtc)
  \/ \E beats \in ReceiptBeats, difficulty \in ReceiptDifficulties,
        anchorHash \in ReceiptAnchorHashes, toHash \in ReceiptHashes,
        utc \in ReceiptIsoTimes :
       RcWorkProofIssued(beats, difficulty, anchorHash, toHash, utc)
  \/ \E key \in Range(SortedKeys) : RcFieldAltered(key)
  \/ \E key \in Range(SortedKeys) : RcFieldRemoved(key)
  \/ RcReordered
  \/ RcVerified

RcStart ==
  RcInit /\ CronIdle /\ SelIdle /\ ContIdle /\ WpIdle /\ VfIdle /\ TsIdle
    /\ RlIdle /\ AcIdle /\ SdkIdle /\ TipIdle /\ KeyIdle /\ LcIdle

SpecReceipt == RcStart /\ [][RcNext]_vars

\* ----------------------------------------------- local chain: the steps

LcRest == <<cronVars, selVars, contVars, wpVars, vfVars, lcOthers>>
LcOverlapVars == <<lcCalls, lcLoops, lcAuto, lcFired>>

\* `await LocalBeatChain.create(opts)`
LcInit ==
  /\ lc \in Created
  /\ LcSequentialIdle
  /\ LcOverlapIdle

\* `await chain.advance()`
LcAdvance ==
  /\ lcSeen.advances < MaxAdvances
  /\ lc' = Advanced(lc)
  /\ lcSeen' = [lcSeen EXCEPT !.advances = @ + 1]
  /\ lcProof' = NoProof /\ lcRestored' = NoRestored
  /\ UNCHANGED <<LcOverlapVars, LcRest>>

\* `await chain.computeCatchup(anchorIndex, anchorHash)`
LcComputeCatchup(anchor) ==
  /\ lcSeen.catchups < MaxCatchups
  /\ \E after \in {computeCatchup(lc, anchor.index, anchor.hash)} :
       lc' = after
  /\ lcSeen' = [lcSeen EXCEPT !.catchups = @ + 1]
  /\ lcProof' = NoProof /\ lcRestored' = NoRestored
  /\ UNCHANGED <<LcOverlapVars, LcRest>>

\* `chain.setAnchorIndex(anchorIndex, anchorHash)`
LcSetAnchorIndex(anchorIndex, anchorHash) ==
  /\ lc' = setAnchorIndex(lc, anchorIndex, anchorHash)
  /\ lcProof' = NoProof /\ lcRestored' = NoRestored
  /\ UNCHANGED <<lcSeen, LcOverlapVars, LcRest>>

\* `chain.clearHistory(keepLast)`
LcClearHistory(keepLast) ==
  /\ lc' = clearHistory(lc, keepLast)
  /\ lcSeen' = [lcSeen EXCEPT !.cleared = TRUE,
                              !.keptNone = @ \/ keepLast < 1]
  /\ lcProof' = NoProof /\ lcRestored' = NoRestored
  /\ UNCHANGED <<LcOverlapVars, LcRest>>

\* `chain.getProof(lo, undefined, spotCheckCount)`; plain is the call
\* without arguments.
LcGetProof(lo, spotCheckCount) ==
  /\ lcProof' = [called |-> TRUE,
                 plain |-> lo = None /\ spotCheckCount = DefaultSpotCheckCount,
                 proof |-> getProof(lc, lo, None, spotCheckCount)]
  /\ lcRestored' = NoRestored
  /\ UNCHANGED <<lc, lcSeen, LcOverlapVars, LcRest>>

\* `await LocalBeatChain.restore(JSON.parse(chain.persist()))`
LcRestore ==
  /\ lcRestored' = [done |-> TRUE, from |-> lc,
                    chain |-> restore(PersistedState(lc))]
  /\ lcProof' = NoProof
  /\ UNCHANGED <<lc, lcSeen, LcOverlapVars, LcRest>>

LcNext ==
  \/ LcAdvance
  \/ \E anchor \in ChainAnchors : LcComputeCatchup(anchor)
  \/ \E anchorIndex \in SetAnchorIndexes, anchorHash \in {None, Some(HashC)} :
       LcSetAnchorIndex(anchorIndex, anchorHash)
  \/ \E keepLast \in KeepLasts : LcClearHistory(keepLast)
  \/ \E lo \in ProofLows, spotCheckCount \in SpotCheckCounts :
       LcGetProof(lo, spotCheckCount)
  \/ LcRestore

LcOthersIdle ==
  CronIdle /\ SelIdle /\ ContIdle /\ WpIdle /\ VfIdle /\ TsIdle /\ RlIdle
    /\ AcIdle /\ SdkIdle /\ TipIdle /\ KeyIdle /\ RcIdle

LcStart == LcInit /\ LcOthersIdle

SpecChain == LcStart /\ [][LcNext]_vars

\* The beats computed or being computed.
BeatsBegun ==
  lc.beatCount
    + Cardinality({c \in ManualCallers : lcCalls[c].pc = "computing"})
    + Cardinality({g \in AutoLoops : lcLoops[g].pc = "advancing"})

\* advance() called by hand, up to its await.
LcAdvanceStarts(c) ==
  /\ lcCalls[c].pc = "idle"
  /\ BeatsBegun < MaxOverlapBeats
  /\ lcCalls' = [lcCalls EXCEPT ![c] = [pc |-> "computing", args |-> Begun(lc)]]
  /\ UNCHANGED <<lc, lcLoops, lcAuto, lcFired, lcSeen, lcProof, lcRestored, LcRest>>

\* computeBeat resolves and that advance() runs to its end.
LcAdvanceResolves(c) ==
  /\ lcCalls[c].pc = "computing"
  /\ lc' = Appended(lc, Computed(lcCalls[c].args))
  /\ lcCalls' = [lcCalls EXCEPT ![c] = IdleAdvance]
  /\ UNCHANGED <<lcLoops, lcAuto, lcFired, lcSeen, lcProof, lcRestored, LcRest>>

\* clearTimeout(handle): the timer loop `handle` set last, if it is still
\* pending, will not fire.
Cleared(loops, handle) ==
  [g \in AutoLoops |->
     IF g = handle /\ loops[g].pc = "waiting"
     THEN [loops[g] EXCEPT !.pc = "dead"] ELSE loops[g]]

\* startAutoAdvance(): stopAutoAdvance(), then a new loop's first timer.
LcStartAutoAdvance ==
  /\ lcAuto.starts < MaxStarts
  /\ lcLoops' = [Cleared(lcLoops, lcAuto.handle) EXCEPT
                   ![lcAuto.starts + 1] = [pc |-> "waiting", args |-> NoArgs]]
  /\ lcAuto' = [handle |-> lcAuto.starts + 1, running |-> TRUE,
                starts |-> lcAuto.starts + 1, stopped |-> FALSE]
  /\ UNCHANGED <<lc, lcCalls, lcFired, lcSeen, lcProof, lcRestored, LcRest>>

\* stopAutoAdvance()
LcStopAutoAdvance ==
  /\ lcAuto.starts > 0 /\ ~lcAuto.stopped
  /\ lcLoops' = Cleared(lcLoops, lcAuto.handle)
  /\ lcAuto' = [lcAuto EXCEPT !.handle = 0, !.running = FALSE,
                              !.stopped = TRUE]
  /\ UNCHANGED <<lc, lcCalls, lcFired, lcSeen, lcProof, lcRestored, LcRest>>

\* A timer fires: tick returns at once when the loop is stopped, and
\* otherwise calls advance(), which runs up to its await.
LcTimerFires(g) ==
  /\ lcLoops[g].pc = "waiting"
  /\ lcAuto.running => BeatsBegun < MaxOverlapBeats
  /\ lcLoops' = [lcLoops EXCEPT
                   ![g] = IF lcAuto.running
                          THEN [pc |-> "advancing", args |-> Begun(lc)]
                          ELSE [pc |-> "dead", args |-> NoArgs]]
  /\ UNCHANGED <<lc, lcCalls, lcAuto, lcFired, lcSeen, lcProof, lcRestored, LcRest>>

\* The tick's advance() resolves: the beat is appended, onAdvance is
\* called, and the next timer is set if the loop is running.
LcTickResolves(g) ==
  /\ lcLoops[g].pc = "advancing"
  /\ lc' = Appended(lc, Computed(lcLoops[g].args))
  /\ lcFired' = lcFired + 1
  /\ lcLoops' = [lcLoops EXCEPT
                   ![g] = [pc |-> IF lcAuto.running THEN "waiting" ELSE "dead",
                           args |-> NoArgs]]
  /\ lcAuto' = IF lcAuto.running THEN [lcAuto EXCEPT !.handle = g] ELSE lcAuto
  /\ UNCHANGED <<lcCalls, lcSeen, lcProof, lcRestored, LcRest>>

LcOverlapNext ==
  \/ \E c \in ManualCallers : LcAdvanceStarts(c)
  \/ \E c \in ManualCallers : LcAdvanceResolves(c)
  \/ LcStartAutoAdvance
  \/ LcStopAutoAdvance
  \/ \E g \in AutoLoops : LcTimerFires(g)
  \/ \E g \in AutoLoops : LcTickResolves(g)

SpecOverlap == LcStart /\ [][LcOverlapNext]_vars

\* ------------------------------------------- the canonical tip: the steps

TipInit ==
  /\ now = WorkProofEpoch
  /\ cronSecret = None
  /\ ledger = SubSeq(PublishedLedger, 1, PublishedAnchors)
  /\ txs = [s \in Invocations |-> "none"]
  /\ inv = [i \in Invocations |-> IdleInvocation]
  /\ tp = NoReads

TipRest == <<selVars, contVars, wpVars, vfVars, tipOthers>>

\* The anchor and the timestamp memos on the ledger.
RECURSIVE AnchorsOn(_)
AnchorsOn(l) ==
  IF l = <<>> THEN 0
  ELSE (IF l[Len(l)].memo.body[2][2] = "anchor" THEN 1 ELSE 0)
         + AnchorsOn(SubSeq(l, 1, Len(l) - 1))

\* n memos with the text of the timestamp endpoint's memo, bound to anchor,
\* finalized after the ledger l.
MemosAfter(l, n, anchor, t) ==
  l \o [k \in 1..n |->
         [signature |-> MaxInvocations + Len(l) + k,
          memo |-> RpcMemo(TimestampMemoJson(HashA, anchor, t))]]

\* One run of GET /api/cron/anchor that nothing overlaps and that no RPC
\* call fails: it reads the tip, finds it stale, gets the entropy, builds
\* the next anchor and returns when its memo is finalized.  A run that finds
\* the tip fresh changes nothing.
TipCron ==
  /\ AnchorsOn(ledger) < PublishedAnchors + MaxTipAnchors
  /\ \E latest \in {readLatestAnchor(ledger)} :
       /\ IF latest = NULL THEN TRUE ELSE Stale(latest, now)
       /\ ledger' =
            Append(ledger,
                   [signature |-> MaxInvocations + Len(ledger) + 1,
                    memo |-> RpcMemo(AnchorMemoJson(
                               NewAnchor(latest, Some("E1"), now)))])
  /\ UNCHANGED <<now, cronSecret, txs, inv, tp, TipRest>>

\* POST /api/v1/beat/timestamp serves n requests in a row, all within the
\* time to live of its cached tip: each publishes one memo bound to that
\* tip.  With no tip the endpoint answers 503 and publishes nothing.
TipMemos(n) ==
  /\ Len(ledger) - AnchorsOn(ledger) + n <= MaxMemos
  /\ \E anchor \in {readLatestAnchor(ledger)} :
       /\ anchor # NULL
       /\ ledger' = MemosAfter(ledger, n, anchor, now)
  /\ UNCHANGED <<now, cronSecret, txs, inv, tp, TipRest>>

\* A read of the canonical tip.
TipRead ==
  /\ tp' = [reads |-> IF tp.reads = 0 THEN 1 ELSE 2,
            last |-> readLatestAnchor(ledger),
            prev |-> tp.last,
            anchored |-> AnchorsOn(ledger) > 0]
  /\ UNCHANGED <<cronVars, TipRest>>

TipTick ==
  /\ now < WorkProofEpoch + MaxTipTicks * TipTickMs
  /\ now' = now + TipTickMs
  /\ UNCHANGED <<cronSecret, ledger, txs, inv, tp, TipRest>>

TipNext ==
  \/ TipCron
  \/ \E n \in MemoBursts : TipMemos(n)
  \/ TipRead
  \/ TipTick

TipStart ==
  TipInit /\ SelIdle /\ ContIdle /\ WpIdle /\ VfIdle /\ TsIdle /\ RlIdle
    /\ AcIdle /\ SdkIdle /\ KeyIdle /\ RcIdle /\ LcIdle

SpecTip == TipStart /\ [][TipNext]_vars



\* ===================================================== properties: selector

\* The well-formed candidates of the list as the selector scores them: one
\* entry per kept candidate, with its depth and whether it is linked.
SelScored ==
  LET deduped == Dedupe(selInput)
  IN  {Score(deduped, deduped[i]) : i \in 1..Len(deduped)}

\* c is ahead of r in the order beat_index descending, depth descending,
\* hash ascending.
Ahead(c, r) ==
  \/ c.tip.beat_index > r.tip.beat_index
  \/ /\ c.tip.beat_index = r.tip.beat_index
     /\ c.depth > r.depth
  \/ /\ c.tip.beat_index = r.tip.beat_index
     /\ c.depth = r.depth
     /\ localeCompare(c.tip.hash, r.tip.hash) < 0

\* C8: selectCanonicalAnchor returns the same anchor (beat_index, hash,
\* prev_hash, utc, difficulty, epoch) for every order of the same candidates.
C8_OrderInvariant ==
  (selResult # NotRun /\ selBase # NotRun) => selResult = selBase

\* C9: malformed candidates are dropped; the anchor returned is one of the
\* linked candidates if there is one and of all well-formed candidates
\* otherwise, and none of that pool is ahead of it by beat_index, then depth,
\* then hash; so an unlinked candidate is never returned while a linked one
\* exists, and null is returned exactly when no candidate is well-formed.
C9_SelectsBestOfPool ==
  selResult # NotRun =>
    LET scored == SelScored
        linked == {s \in scored : s.linked}
        pool == IF linked # {} THEN linked ELSE scored
    IN  /\ (selResult = NULL) <=> (\A i \in 1..Len(selInput) :
                                     ~WellFormed(selInput[i]))
        /\ selResult # NULL =>
             \E r \in pool :
               /\ r.tip = selResult
               /\ \A c \in pool : ~Ahead(c, r)
               /\ linked # {} => r.linked

\* C9 witness: a linked anchor is returned although an unlinked candidate of
\* higher beat_index and a malformed candidate are in the list.
C9_Witness ==
  /\ selResult # NotRun
  /\ selResult # NULL
  /\ \E i \in 1..Len(selInput) : ~WellFormed(selInput[i])
  /\ LET scored == SelScored
     IN  /\ \E r \in scored : r.tip = selResult /\ r.linked
         /\ \E c \in scored :
              c.tip.beat_index > selResult.beat_index /\ ~c.linked

\* =================================================== properties: continuity

\* C10: isContinuousNextAnchor(latest, incoming) is true exactly when incoming
\* is well-formed and either latest is null, incoming.beat_index is 0 and its
\* prev_hash is the genesis prev hash, or latest is not null,
\* incoming.beat_index is latest.beat_index + 1 and incoming.prev_hash is
\* latest.hash; a replay of the same index, a conflicting anchor at the same
\* index, a jump and a wrong prev_hash give false.
C10_ContinuousExactly ==
  contResult # <<>> =>
    /\ contResult[1] <=>
         /\ contIncoming # NULL
         /\ IsInteger(contIncoming, "beat_index")
         /\ HEX64(contIncoming, "hash")
         /\ HEX64(contIncoming, "prev_hash")
         /\ \/ /\ contLatest = NULL
               /\ contIncoming.beat_index = 0
               /\ contIncoming.prev_hash = genesisPrevHash
            \/ /\ contLatest # NULL
               /\ IsInteger(contLatest, "beat_index")
               /\ contIncoming.beat_index = contLatest.beat_index + 1
               /\ Has(contLatest, "hash")
               /\ contIncoming.prev_hash = contLatest.hash
    /\ (/\ WellFormed(contLatest) /\ WellFormed(contIncoming)
        /\ contIncoming.beat_index # contLatest.beat_index + 1) => ~contResult[1]

\* C10 witness: a jump of two indexes whose prev_hash is the latest hash has
\* been rejected.
C10_Witness ==
  /\ contResult = <<FALSE>>
  /\ WellFormed(contLatest) /\ WellFormed(contIncoming)
  /\ contIncoming.beat_index = contLatest.beat_index + 2
  /\ contIncoming.prev_hash = contLatest.hash

\* ------------------------------------------------ cron handler: properties

IntervalMs == GLOBAL_ANCHOR_INTERVAL_SEC * 1000

\* The anchors among the wallet's finalized memos, oldest first.
LedgerAnchors ==
  LET sigs == SelectSeq(ledger, IsAnchorSignature)
  IN  [k \in 1..Len(sigs) |-> parseAnchorMemo(sigs[k].memo)]

\* sendAndConfirmTx has returned the signature to its caller.
Returned(i) ==
  \/ inv[i].pc = "gettx"
  \/ inv[i].pc = "done"
       /\ inv[i].response.body \in {"generated", "getTransaction failed"}

Authorized(i) ==
  /\ cronSecret # None
  /\ cronSecret[1] # <<>>
  /\ inv[i].authHeader = Some(Bearer \o cronSecret[1])

\* C1: of two invocations of which the second starts after the first has
\* answered and passes its freshness gate less than one anchor interval after
\* the first started, at most one gets an anchor memo onto the ledger.
C1_SequentialIdempotent ==
  \A j \in Invocations : \A i \in inv[j].after :
    inv[j].gateNow - inv[i].t0 < IntervalMs
      => ~(txs[i] = "finalized" /\ txs[j] = "finalized")

\* C2: two invocations that overlap in time never both get an anchor memo
\* with the same beat_index onto the ledger.
C2_ConcurrentNoTwin ==
  \A j \in Invocations : \A i \in inv[j].during :
    (txs[i] = "finalized" /\ txs[j] = "finalized")
      => inv[i].newAnchor.beat_index # inv[j].newAnchor.beat_index

\* C3: the anchors on the ledger form one linked sequence: the first is the
\* genesis anchor (index 0 on the genesis prev_hash) and every later one has
\* the index of the one before plus one and its hash as prev_hash.
C3_SingleLinkedSequence ==
  \A k \in 1..Len(LedgerAnchors) :
    isContinuousNextAnchor(
      IF k = 1 THEN NULL ELSE LedgerAnchors[k - 1], LedgerAnchors[k])

\* C4: an invocation whose entropy fetch returned null has answered 503, has
\* built no anchor and has sent no transaction, so no memo of it is on the
\* ledger.
C4_EntropyFailClosed ==
  \A i \in Invocations :
    (inv[i].fetched /\ inv[i].solanaEntropy = None) =>
      /\ inv[i].pc = "done"
      /\ inv[i].response =
           [status |-> 503, body |-> "Solana entropy unavailable"]
      /\ inv[i].newAnchor = NULL
      /\ txs[i] = "none"
      /\ \A k \in 1..Len(ledger) : ledger[k].signature # i

C4_Witness ==
  \E i \in Invocations :
    /\ inv[i].fetched
    /\ inv[i].solanaEntropy = None
    /\ inv[i].latest # NULL
    /\ inv[i].response.status = 503

\* C5: an invocation whose publish path raised a send failure, a transaction
\* error status or the confirmation timeout has answered 500 and has no memo
\* on the ledger, whenever the ledger is looked at after the answer.
C5_ErrorNeverAdvances ==
  \A i \in Invocations :
    inv[i].response.body \in {"send failed", "Transaction failed",
                              "Transaction confirmation timeout"}
      => inv[i].response.status = 500 /\ txs[i] # "finalized"

C7_ReturnsOnlyFinalized ==
  \A i \in Invocations :
    /\ Returned(i) => inv[i].lastStatus = "finalized" /\ txs[i] = "finalized"
    /\ inv[i].lastStatus \in {"none", "sent", "processed", "confirmed"}
         => ~Returned(i)
    /\ inv[i].lastStatus = "failed"
         <=> inv[i].response.body = "Transaction failed"
    /\ (inv[i].pc = "poll" /\ inv[i].lastStatus # "none")
         => inv[i].wake - pollIntervalMs - inv[i].start < timeoutMs
    /\ inv[i].response.body = "Transaction confirmation timeout"
         => /\ now - inv[i].start >= timeoutMs
            /\ inv[i].lastStatus \notin {"finalized", "failed"}

C7_Witness ==
  \E i \in Invocations :
    /\ inv[i].response.body = "Transaction confirmation timeout"
    /\ inv[i].lastStatus = "confirmed"
    /\ \E k \in Invocations : Returned(k) /\ inv[k].response.body = "generated"


\* C11: parseAnchorMemo applied to an anchor memo the cron has serialized
\* returns a record equal to the published anchor in beat_index, hash,
\* prev_hash, utc, difficulty, epoch and, when the memo carries it,
\* solana_entropy.
C11_ParseRoundTrip ==
  \A k \in 1..Len(ledger) :
    ledger[k].signature \in Invocations =>
      LET published == inv[ledger[k].signature].newAnchor
          parsed == parseAnchorMemo(ledger[k].memo)
      IN  /\ parsed # NULL
          /\ \A f \in {"beat_index", "hash", "prev_hash", "utc",
                       "difficulty", "epoch"} :
               Has(parsed, f) /\ parsed[f] = published[f]
          /\ Has(published, "solana_entropy") =>
               /\ Has(parsed, "solana_entropy")
               /\ parsed.solana_entropy = published.solana_entropy

\* ------------------------------------------------- work-proof: properties

\* What each step of the validation makes of a request, step by step and
\* whatever the steps before it said.  The steps after the structural
\* validation are looked at for a well-formed request only, and the span and
\* the recomputation only when the steps they build on have a value.
StepsOf(req) ==
  LET parsed == ContentTypeIsJson(req.contentType) /\ req.body # BadJson
      x == WorkProofFields(req.body)
      structure == IF parsed THEN StructuralError(x) = "" ELSE FALSE
      d == RawDifficulty(x)
      sc(i) == x.spotChecks[i]
  IN  IF ~structure
        THEN [structure |-> FALSE]
        ELSE [structure |-> TRUE,
              fields |-> x,
              difficulty |->
                d.t = "number" /\ d.k = "int" /\ d.n >= MIN_DIFFICULTY,
              clamped |-> Min(d.n, PUBLIC_MAX_DIFFICULTY),
              count |->
                Len(x.spotChecks) >= Min(MIN_SPOT_CHECKS, x.beatsComputed.n),
              span |->
                \A i, j \in 1..Len(x.spotChecks) :
                  Field(sc(i), "index").n - Field(sc(j), "index").n
                    <= x.beatsComputed.n,
              recomputation |->
                \A i \in 1..Len(x.spotChecks) :
                  SpotCheckVerifies(sc(i), x.anchorHash,
                                    Min(d.n, PUBLIC_MAX_DIFFICULTY))]

Steps == [k \in DOMAIN WorkProofRequests |-> StepsOf(WorkProofRequests[k])]

\* The request the endpoint has answered.
Answered == wp.pc = "done"

\* The limiter let the served request in: it was at most the tenth of its
\* window.
RateLimitPassed ==
  limiterMap[WorkProofRequests[wp.req].ip].count <= WorkProofMaxRequests

\* Freshness against the anchor the handler was given, if it was given one.
FreshnessPassed ==
  \/ wp.currentAnchor = NULL
  \/ /\ wp.currentAnchor.beat_index - Steps[wp.req].fields.anchorIndex.n
          <= ANCHOR_HASH_GRACE_WINDOW
     /\ Steps[wp.req].fields.anchorIndex.n <= wp.currentAnchor.beat_index

EveryStepPassed ==
  IF ~(RateLimitPassed /\ Steps[wp.req].structure) THEN FALSE
  ELSE /\ Steps[wp.req].difficulty
       /\ Steps[wp.req].count
       /\ Steps[wp.req].span
       /\ FreshnessPassed
       /\ Steps[wp.req].recomputation

Reasons ==
  {"insufficient_difficulty", "insufficient_spot_checks", "count_mismatch",
   "stale_anchor", "spot_check_failed"}

Refused ==
  /\ wp.signed = <<>>
  /\ ~Has(wp.response, "receipt")
  /\ \/ wp.response.status \in 400..499
     \/ /\ wp.response.status = 200
        /\ Has(wp.response, "valid") /\ wp.response.valid = FALSE
        /\ Has(wp.response, "reason") /\ wp.response.reason \in Reasons

FirstFailure ==
  IF ~Steps[wp.req].difficulty THEN "insufficient_difficulty"
  ELSE IF ~Steps[wp.req].count THEN "insufficient_spot_checks"
  ELSE IF ~Steps[wp.req].span THEN "count_mismatch"
  ELSE IF ~FreshnessPassed THEN "stale_anchor"
  ELSE IF ~Steps[wp.req].recomputation THEN "spot_check_failed"
  ELSE ""

WellFormedAnswered ==
  Answered /\ RateLimitPassed /\ Steps[wp.req].structure

AskedForTip == Answered /\ wp.read # "none"

\* The proof is stale against the anchor that readLatestAnchor finds on the
\* ledger at the moment the handler asks for the tip.
StaleOnLedger ==
  /\ wp.tip # NULL
  /\ \/ wp.tip.beat_index - Steps[wp.req].fields.anchorIndex.n
          > ANCHOR_HASH_GRACE_WINDOW
     \/ Steps[wp.req].fields.anchorIndex.n > wp.tip.beat_index

\* C14: whenever the ledger has a tip, a proof whose anchor_index lags the
\* tip's beat_index by more than ANCHOR_HASH_GRACE_WINDOW, or lies beyond
\* it, is answered stale_anchor and gets no receipt; freshness is passed
\* over only when there is no anchor yet.
C14_StaleNeverReceipted ==
  AskedForTip /\ StaleOnLedger =>
    /\ wp.response = invalid("stale_anchor")
    /\ wp.signed = <<>>

\* rawDifficulty of the answered request, as Number() reads it: a decimal
\* string counts as its value.
DeclaredDifficulty == RawDifficulty(Steps[wp.req].fields)

\* Every spot check of the answered request carries the hash that
\* difficulty d gives for its prev, index, nonce and the proof's anchor hash.
SpotChecksHoldAt(d) ==
  \A i \in 1..Len(Steps[wp.req].fields.spotChecks) :
    LET sc == Steps[wp.req].fields.spotChecks[i]
    IN  /\ Field(sc, "hash").t = "string"
        /\ Field(sc, "hash").s =
             computeBeat(StringOf(Field(sc, "prev")), Field(sc, "index").n, d,
                         IF Field(sc, "nonce").t = "string"
                           THEN Some(Field(sc, "nonce").s) ELSE None,
                         Steps[wp.req].fields.anchorHash).hash

\* C15: a proof whose difficulty is missing, no integer or below
\* MIN_DIFFICULTY is answered insufficient_difficulty and nothing is
\* recomputed for it at a lifted difficulty; any other proof is recomputed
\* at min(difficulty, PUBLIC_MAX_DIFFICULTY) only, and a receipt names
\* exactly that difficulty, at which every spot check holds.
C15_DifficultyRejectedOrClamped ==
  WellFormedAnswered =>
    /\ ~Steps[wp.req].difficulty =>
         /\ wp.response = invalid("insufficient_difficulty")
         /\ wp.verified = {}
         /\ wp.signed = <<>>
    /\ Steps[wp.req].difficulty =>
         wp.verified \subseteq
           {Min(DeclaredDifficulty.n, PUBLIC_MAX_DIFFICULTY)}
    /\ wp.signed # <<>> =>
         /\ wp.signed[1].difficulty =
              Min(DeclaredDifficulty.n, PUBLIC_MAX_DIFFICULTY)
         /\ wp.response.receipt.difficulty = wp.signed[1].difficulty
         /\ SpotChecksHoldAt(wp.signed[1].difficulty)

\* A proof that declares more than PUBLIC_MAX_DIFFICULTY and whose beats were
\* computed at PUBLIC_MAX_DIFFICULTY gets a receipt at PUBLIC_MAX_DIFFICULTY.
C15_Witness ==
  /\ WellFormedAnswered
  /\ DeclaredDifficulty.n > PUBLIC_MAX_DIFFICULTY
  /\ wp.verified = {PUBLIC_MAX_DIFFICULTY}
  /\ wp.signed # <<>>
  /\ wp.response.receipt.difficulty = PUBLIC_MAX_DIFFICULTY


\* ======================================================= properties: verify

\* The endpoint has served a body and its limiter let the request in.
VfAnswered == vf.req # 0 /\ vf.response.status # 429

\* The body served last.
VfBody == VerifyBodies[IF vf.req = 0 THEN 1 ELSE vf.req]

InBand(d) ==
  /\ NumberIsFinite(d)
  /\ Twice(d) >= 2 * MIN_DIFFICULTY
  /\ Twice(d) <= 2 * PUBLIC_MAX_DIFFICULTY

\* The difficulty the body asks for, as a number.
Asked == ToNumber(Coalesce(Field(VfBody, "difficulty"), JsNaN))

\* What the band makes of it: 1000 for none and for no finite one, the
\* nearest value of the band otherwise.
Banded ==
  IF ~NumberIsFinite(Asked) THEN JsNum(DEFAULT_DIFFICULTY)
  ELSE IF Twice(Asked) < 2 * MIN_DIFFICULTY THEN JsNum(MIN_DIFFICULTY)
  ELSE IF Twice(Asked) > 2 * PUBLIC_MAX_DIFFICULTY
    THEN JsNum(PUBLIC_MAX_DIFFICULTY)
  ELSE Asked

\* C16: in beat, chain and proof mode alike, every difficulty the verify
\* endpoint hands to a verifier and every difficulty it echoes lies in
\* [100, 5000]: it is the requested value brought into the band, and 1000
\* when the request names none or none that is finite.
C16_VerifyDifficultyInBand ==
  VfAnswered =>
    /\ \A d \in vf.recomputedAt : InBand(d) /\ d = Banded
    /\ Has(vf.response, "difficulty") =>
         /\ InBand(vf.response.difficulty)
         /\ vf.response.difficulty = Banded
         /\ vf.recomputedAt = {vf.response.difficulty}

\* A chain posted with difficulty 6000 was recomputed at 5000, and 5000 is
\* what the response names.
C16_Witness ==
  /\ VfAnswered
  /\ Field(VfBody, "difficulty") = JsNum(6000)
  /\ Has(vf.response, "mode") /\ vf.response.mode = "chain"
  /\ vf.recomputedAt = {JsNum(PUBLIC_MAX_DIFFICULTY)}
  /\ vf.response.difficulty = JsNum(PUBLIC_MAX_DIFFICULTY)

\* The body served is in beat mode and names a finite number as difficulty
\* and a beat with an integer index and strings as hash and prev.
PostsBeat ==
  /\ VfAnswered
  /\ VfBody # BadJson
  /\ Field(VfBody, "mode") \in {JsUndefined, JsStr(ModeBeat)}
  /\ NumberIsFinite(Field(VfBody, "difficulty"))
  /\ NumberIsInteger(Field(Field(VfBody, "beat"), "index"))
  /\ Field(Field(VfBody, "beat"), "hash").t = "string"
  /\ Field(Field(VfBody, "beat"), "prev").t = "string"

\* The beat computeBeat(prev, index, d) gives for the prev and the index of
\* the posted beat and the posted difficulty d, as it is posted.
ComputedBeat ==
  BeatJson(computeBeat(Field(Field(VfBody, "beat"), "prev").s,
                       Field(Field(VfBody, "beat"), "index").n,
                       Iterations(Field(VfBody, "difficulty")), None, None))

PostsComputedBeat == PostsBeat /\ Field(VfBody, "beat") = ComputedBeat

PostsAlteredBeat ==
  /\ PostsBeat
  /\ \E p \in 1..HEX64_LENGTH :
       Field(VfBody, "beat") = AlterHash(ComputedBeat, p)

ReportedValid ==
  /\ vf.response.status = 200
  /\ vf.response.valid
  /\ vf.response.beat_index = Field(Field(VfBody, "beat"), "index")

ReportedInvalid == vf.response.status = 200 /\ ~vf.response.valid

\* C17 as stated: a beat computeBeat(prev, index, d) gives, posted in beat
\* mode with the same d, is reported valid with the posted beat_index, for
\* every d and so for d = 10; with its hash altered it is reported invalid.
C17_ComputedBeatVerifies ==
  /\ PostsComputedBeat => ReportedValid
  /\ PostsAlteredBeat => ReportedInvalid

\* C17, amended: the same for every d of the band [100, 5000].
C17_ComputedBeatVerifiesInBand ==
  InBand(Field(VfBody, "difficulty")) =>
    /\ PostsComputedBeat => ReportedValid
    /\ PostsAlteredBeat => ReportedInvalid

\* The beat computed at difficulty 100 from "00" x 32 at index 1 was posted
\* with difficulty 100 and reported valid with beat_index 1.
C17_Witness ==
  /\ PostsComputedBeat
  /\ Field(VfBody, "difficulty") = JsNum(MIN_DIFFICULTY)
  /\ Field(Field(VfBody, "beat"), "prev") = JsStr(ZeroHash)
  /\ ReportedValid
  /\ vf.response.beat_index = JsNum(1)
  /\ vf.response.difficulty = JsNum(MIN_DIFFICULTY)

\* The endpoint has answered with the result of verifyBeatChain.
ChainVerified ==
  /\ VfAnswered
  /\ vf.response.status = 200
  /\ vf.response.mode = "chain"

\* The chain posted, and the positions whose beat does not name the hash
\* of the beat before.
PostedChain == Field(VfBody, "beats").a

Unlinked ==
  {i \in 1..(Len(PostedChain) - 1) :
     Field(PostedChain[i + 1], "prev") # Field(PostedChain[i], "hash")}

\* Every beat at a sampled position passes verifyBeat at the difficulty the
\* response names.
SampledBeatsVerify ==
  \A p \in Range(vf.sampled) :
    VerifiesPosted(PostedChain[p + 1], vf.response.difficulty)

\* C18: verifyBeatChain on a non-empty chain reports valid exactly when
\* every beat names the hash of the beat before and every sampled beat
\* passes verifyBeat; every position with a broken link is in
\* failed_indices, and the first of them comes first there, so a chain
\* broken at beats[3].prev only is invalid with failed_indices [3, ...].
C18_ValidIffLinkedAndSampled ==
  ChainVerified =>
    /\ vf.response.valid <=> (Unlinked = {} /\ SampledBeatsVerify)
    /\ \A i \in Unlinked : JsNum(i) \in Range(vf.response.failed_indices)
    /\ Unlinked # {} =>
         vf.response.failed_indices[1] = JsNum(MinOf(Unlinked))

\* A chain of five beats broken at beats[3].prev and nowhere else, sampled
\* at all five positions, was answered valid:false with failed_indices
\* <<3, 4>>: the broken link, then the index field of the beat at 3.
C18_Witness ==
  /\ ChainVerified
  /\ Len(PostedChain) = 5
  /\ Unlinked = {3}
  /\ 3 \in Range(vf.sampled)
  /\ ~vf.response.valid
  /\ vf.response.failed_indices = <<JsNum(3), JsNum(4)>>

\* What the sampling of verifyBeatChain may depend on, for every body the
\* endpoint hands to verifyBeatChain: the length, the difficulty, the hash
\* of the first and of the last beat, and the requested count.
SampleKey(body) ==
  LET beats == Field(body, "beats").a
  IN  <<Len(beats), VerifyDifficulty(body), HashOrEmpty(beats[1]),
        HashOrEmpty(beats[Len(beats)]), ChainSpotChecks(body)>>

ChainsVerified ==
  {k \in DOMAIN VerifyBodies :
     /\ VerifyAnswers[k].response.status = 200
     /\ VerifyAnswers[k].response.mode = "chain"}

SampleKeys ==
  [k \in DOMAIN VerifyBodies |->
     IF k \in ChainsVerified THEN SampleKey(VerifyBodies[k]) ELSE NULL]

\* The chains that agree with the chain served on all of these.
SameKey == {k \in ChainsVerified : SampleKeys[k] = SampleKeys[vf.req]}

\* C19: the positions verifyBeatChain samples are a function of the length
\* of the chain, the difficulty, the hashes of its first and last beat and
\* the requested count: every chain that agrees with the chain served on
\* these is sampled at the same positions, whatever its other beats hold.
C19_SamplingDeterminedByKey ==
  ChainVerified =>
    \A k \in SameKey :
      Range(VerifyAnswers[k].sampled) = Range(vf.sampled)

\* A chain of five served with four spot checks, one of them at a position
\* drawn from the digest, shares its key with a chain whose second and
\* third beat differ, and both were sampled at the same positions.
C19_Witness ==
  /\ ChainVerified
  /\ Len(PostedChain) = 5
  /\ Len(vf.sampled) = 4
  /\ \E k \in SameKey :
       /\ Field(VerifyBodies[k], "beats").a[2] # PostedChain[2]
       /\ Field(VerifyBodies[k], "beats").a[3] # PostedChain[3]
       /\ Range(VerifyAnswers[k].sampled) = Range(vf.sampled)

\* The positions the claim fixes for a chain of n beats.
FixedPositions(n) ==
  {0, n - 1}
    \cup (IF n >= 4 THEN {n \div 2} ELSE {})
    \cup (IF n >= 8 THEN {n \div 4, (3 * n) \div 4} ELSE {})

\* C20: for every non-empty chain of n beats and every requested count, the
\* positions verifyBeatChain recomputes include 0 and n - 1, floor(n / 2)
\* when n >= 4, and floor(n / 4) and floor(3n / 4) when n >= 8, and
\* positions drawn from the digest are added only until the requested count
\* is reached.
C20_FixedPositionsAlwaysSampled ==
  ChainVerified =>
    LET n == Len(PostedChain)
        wanted == Max(0, Min(ChainSpotChecks(VfBody), n))
    IN  /\ FixedPositions(n) \subseteq Range(vf.sampled)
        /\ Len(vf.sampled) <= Max(wanted, Cardinality(FixedPositions(n)))

\* The createHash calls of the request served last.
Operations == IF VfAnswered THEN VerifyOperations[vf.req] ELSE 0

\* C21: a single POST to the verify endpoint, in any mode and for any body
\* it accepts, makes at most PUBLIC_MAX_SPOT_CHECKS * PUBLIC_MAX_DIFFICULTY
\* = 125000 SHA-256 calls.
C21_AtMostCapOperations ==
  Operations <= PUBLIC_MAX_SPOT_CHECKS * PUBLIC_MAX_DIFFICULTY

\* The proof of a proof-mode body the endpoint answered with a verdict.
ProofAnswered ==
  /\ VfAnswered
  /\ vf.response.status = 200
  /\ Has(vf.response, "mode")
  /\ vf.response.mode = "proof"

PostedProof == Field(VfBody, "proof")

PostedChecks ==
  IF Field(PostedProof, "spot_checks").t = "array"
    THEN Field(PostedProof, "spot_checks").a ELSE <<>>

Span == Field(PostedProof, "to_beat").n - Field(PostedProof, "from_beat").n

CountMatches == Field(PostedProof, "beats_computed") = JsNum(Span)

EnoughChecks == Len(PostedChecks) >= Min(MIN_SPOT_CHECKS, Span)

HasEndpoint ==
  \E k \in 1..Len(PostedChecks) :
    Field(PostedChecks[k], "index") = Field(PostedProof, "to_beat")

\* Every spot check carries prev and a hash that verifyBeat reproduces
\* with the anchor hash of the proof.
ChecksReproduce ==
  \A k \in 1..Len(PostedChecks) :
    /\ Truthy(Field(PostedChecks[k], "prev"))
    /\ VerifiesPosted(
         SetField(PostedChecks[k], "anchor_hash",
                  IF Field(PostedProof, "anchor_hash").t = "string"
                    THEN Field(PostedProof, "anchor_hash") ELSE JsUndefined),
         Banded)

NamesToBeat ==
  /\ ~vf.response.valid
  /\ Has(vf.response, "reason")
  /\ vf.response.reason = "Spot checks must include to_beat index"

ValidIffAllHold ==
  vf.response.valid <=>
    /\ CountMatches
    /\ Span > 0
    /\ EnoughChecks
    /\ HasEndpoint
    /\ ChecksReproduce

\* C22 as stated: the proof is answered valid:true exactly when the count
\* matches, the range moves forward, enough spot checks are supplied, one of
\* them is at to_beat and all of them reproduce; and every proof without a
\* spot check at to_beat is rejected with the reason that names to_beat.
C22_ValidIffAndEndpointReason ==
  ProofAnswered =>
    /\ ValidIffAllHold
    /\ ~HasEndpoint => NamesToBeat

\* C22, amended: the same equivalence; a proof that passes the count, the
\* range and the minimum number of spot checks but has none at to_beat is
\* rejected with the reason that names to_beat.
C22_ValidIffAndEndpointReasonAfterCount ==
  ProofAnswered =>
    /\ ValidIffAllHold
    /\ (CountMatches /\ Span > 0 /\ EnoughChecks /\ ~HasEndpoint)
         => NamesToBeat

\* A proof that meets every condition but the spot check at to_beat has been
\* rejected for it.
C22_Witness ==
  /\ ProofAnswered
  /\ CountMatches /\ Span > 0 /\ EnoughChecks /\ ChecksReproduce
  /\ ~HasEndpoint
  /\ NamesToBeat

\* The proof leaves beats_computed out.
CountOmitted == Field(PostedProof, "beats_computed") = JsUndefined

\* C40: a well-formed proof that omits beats_computed, moves forward and
\* carries at least three spot checks, one of them at to_beat, all of which
\* recompute, is answered valid:true.
C40_OmittedCountAccepted ==
  (/\ ProofAnswered
   /\ CountOmitted
   /\ Span > 0
   /\ Len(PostedChecks) >= MIN_SPOT_CHECKS
   /\ HasEndpoint
   /\ ChecksReproduce)
    => vf.response.valid

\* =================================================== properties: timestamp

TsAnswered == ts.req # 0

TsRequest == TimestampRequests[IF TsAnswered THEN ts.req ELSE 1]

\* The hash the body carries matches ^[0-9a-f]{64}$.
CarriesHash ==
  /\ TsRequest.body # BadJson
  /\ Field(TsRequest.body, "hash").t = "string"
  /\ HASH_REGEX_test(Field(TsRequest.body, "hash").s)

\* The request passed both limiters, is JSON of at most MAX_BODY_BYTES bytes
\* with such a hash, and found an anchor and a sufficient balance.
FullyValid ==
  /\ ts.effects.passed
  /\ ContentTypeIsJson(TsRequest.contentType)
  /\ TsRequest.bytes <= MAX_BODY_BYTES
  /\ CarriesHash
  /\ ts.effects.anchor # NULL
  /\ ts.effects.balance # None
  /\ ts.effects.balance[1] >= MIN_ANCHOR_BALANCE_LAMPORTS

\* C23: the timestamp endpoint publishes a memo and signs a receipt only for
\* a request that passed both rate limiters, has a JSON content type and a
\* body of at most 256 bytes, carries a hash of 64 lowercase hex characters,
\* and found a current anchor and a writer balance of at least 5000; every
\* other request gets an error, and neither a memo nor a receipt.
C23_PublishesOnlyFullyValid ==
  (TsAnswered /\ ~FullyValid) =>
    /\ ts.response.status >= 400
    /\ ~ts.effects.published
    /\ ~ts.effects.signed

\* The request reached the try block and one of its awaited calls threw.
Unexpected ==
  /\ TsAnswered
  /\ ts.effects.passed
  /\ TimestampValidations[ts.req].response = NoResponse
  /\ ts.fate \in {"balance-throws", "send-throws", "send-lost",
                  "sign-throws"}
       \/ (ts.fate = "read-throws" /\ ts.effects.anchor = NULL)

\* C24: every response of the timestamp endpoint has status 200, 400, 413,
\* 415, 429, 503 or 500, and a failure of the ledger read, the balance
\* check, the publish or the signer is answered with 500.
C24_DocumentedStatus ==
  TsAnswered =>
    /\ ts.response.status \in {200, 400, 413, 415, 429, 503, 500}
    /\ Unexpected => ts.response.status = 500

RlCalled == rlLast.key # ""

\* The call found no entry of its key, or one whose window was over.
OpensWindow ==
  IF rlLast.before = NULL THEN TRUE ELSE rlLast.t >= rlLast.before.resetAt

\* C26: in one window of a key check allows at most maxRequests calls; a
\* call inside a window leaves the window's resetAt as it is; remaining is
\* never negative; and the first call at or after resetAt opens a window of
\* count 1 that ends windowMs later, whether cleanup has deleted the old
\* entry or not.
C26_FixedWindow ==
  /\ \A key \in RlKeys : rlAllowed[key] <= RlOptions.maxRequests
  /\ RlCalled =>
       /\ rlLast.remaining >= 0
       /\ IF OpensWindow
            THEN /\ rlLast.after = [count |-> 1,
                                    resetAt |-> rlLast.t
                                                  + RlOptions.windowMs]
                 /\ rlLast.allowed
                 /\ rlLast.resetAt = rlLast.t + RlOptions.windowMs
            ELSE /\ rlLast.after.resetAt = rlLast.before.resetAt
                 /\ rlLast.after.count = rlLast.before.count + 1
                 /\ rlLast.resetAt = rlLast.before.resetAt

\* A key whose calls were refused in a window that no cleanup has removed
\* calls after the window's end and is allowed in a new window, while the
\* other key is inside a window in which it used its quota.
C26_Witness ==
  /\ RlCalled
  /\ rlLast.before # NULL
  /\ rlLast.before.count > RlOptions.maxRequests
  /\ rlLast.t >= rlLast.before.resetAt
  /\ rlLast.allowed
  /\ \E key \in RlKeys \ {rlLast.key} :
       /\ rlAllowed[key] = RlOptions.maxRequests
       /\ rlMap[key] # NULL
       /\ rlMap[key].count > RlOptions.maxRequests

\* The keys the limiter's map holds.
RECURSIVE CrowdKeys(_)
CrowdKeys(groups) ==
  IF groups = <<>> THEN 0 ELSE Head(groups).keys + CrowdKeys(Tail(groups))

Tracked ==
  Cardinality({key \in RlKeys : rlMap[key] # NULL}) + CrowdKeys(rlCrowd)

\* C27: the map of a RateLimiter never holds more keys than its hard cap,
\* 20 000 for a limiter constructed without one, however many distinct keys
\* call check.
C27_KeysWithinCap == Tracked <= 20000

\* ================================== properties: readLatestAnchorCached

\* C28: a call that finds an unexpired entry returns the entry's value and
\* reads no ledger; a call that finds none, or one at or past its expiry,
\* reads the ledger and, when the read resolves, replaces the entry; a value
\* returned from the cache comes from a ledger read that was started less
\* than the time to live (10 s) before the call; and a call whose read
\* fails leaves the entry as it is.
C28_ServedWithinTtl ==
  /\ \A c \in AcCallers :
       LET call == acCallers[c]
       IN  call.pc # "idle" =>
             /\ CacheHit(call.seen, call.start) \/ call.read
             /\ call.from = "cache" =>
                  /\ CacheHit(call.seen, call.start)
                  /\ ~call.read
                  /\ call.value = call.seen.value
                  /\ call.start - call.produced < AnchorCacheTtlMs
             /\ call.from = "ledger" =>
                  /\ call.read
                  /\ call.wrote = [value |-> call.value,
                                   expiresAt |-> call.start
                                                   + AnchorCacheTtlMs]
             /\ call.from = "failed" =>
                  /\ call.read
                  /\ call.wrote = NULL
                  /\ call.after = call.before
  /\ anchorCache # NULL =>
       anchorCache.expiresAt = acProduced + AnchorCacheTtlMs

\* A caller has the value of a read that took half the time to live from the
\* cache, a newer anchor being on the ledger, while the other caller, who
\* came at the expiry of an earlier entry, is reading the ledger.
C28_Witness ==
  \E c, d \in AcCallers :
    /\ acCallers[c].from = "cache"
    /\ acCallers[c].start > acCallers[c].produced
    /\ acCallers[c].value # TipAfter[Len(ledger)]
    /\ acCallers[d].pc = "reading"
    /\ acCallers[d].seen # NULL
    /\ acCallers[d].start = acCallers[d].seen.expiresAt

\* The beat_index of a cached or served tip, -1 for null.
TipIndex(value) == IF value = NULL THEN -1 ELSE value.beat_index

\* C36: under any interleaving of calls the entry holds the value and the
\* expiry that one refresh wrote together, a refresh answered from an
\* earlier ledger never replaces the entry of a refresh answered from a
\* later one, and so the cached anchor never goes back to a lower
\* beat_index.
C36_NoOlderRefresh ==
  [][/\ anchorCache' # NULL =>
          /\ anchorCache'.value = TipAfter[acRead']
          /\ anchorCache'.expiresAt = acProduced' + AnchorCacheTtlMs
     /\ anchorCache # NULL =>
          /\ acRead' >= acRead
          /\ TipIndex(anchorCache'.value) >= TipIndex(anchorCache.value)]_vars

\* ================================== properties: beats client, the keys

\* The key the client is to verify a call with: the call's publicKey, else
\* the pinned key, else the key cached when the call was made, else the key
\* it fetched from the key endpoint, if it fetched one.
ResolvedKey(call) ==
  IF call.publicKey # NoKey THEN call.publicKey
  ELSE IF krPinned # NoKey THEN krPinned
  ELSE IF call.cached # NoKey THEN call.cached
  ELSE IF call.fetched THEN call.key
  ELSE NoKey

C35_TipNeverLost ==
  /\ (tp.reads >= 1 /\ tp.anchored) => tp.last # NULL
  /\ (tp.reads >= 2 /\ tp.prev # NULL) =>
       /\ tp.last # NULL
       /\ tp.last.beat_index >= tp.prev.beat_index

\* ================================================ properties: beats client

ContinuityCodes ==
  {"ANCHOR_REGRESSION", "ANCHOR_FORK", "ANCHOR_CHAIN_BREAK", "ANCHOR_JUMP"}

\* Call c of getAnchor is made in this step.
Called(c) ==
  /\ sdkCalls[c].pc \in {"idle", "done"}
  /\ sdkCalls'[c].pc \in {"requested", "done"}
  /\ sdkRequests' # sdkRequests \/ sdkCalls'[c].threw = "CHAIN_BROKEN"

\* Call c of getAnchor ends in this step.
Ended(c) ==
  /\ sdkCalls[c].pc \in {"requested", "verifying"}
  /\ sdkCalls'[c].pc = "done"

\* A call of setLastKnownAnchor or resync is recorded in this step.
Recorded(op) == sdkLast' # sdkLast /\ sdkLast'.op = op

\* C29: a continuity error of getAnchor leaves the client broken; while it
\* is broken every call of getAnchor throws CHAIN_BROKEN and sends no
\* request, setLastKnownAnchor throws and changes nothing, and only resync
\* with a valid anchor ends the broken state; resync with a valid anchor
\* leaves the client not broken with that anchor as its last known one.
C29_BrokenUntilResync ==
  [][/\ \A c \in SdkCallers :
          (Ended(c) /\ sdkCalls'[c].threw \in ContinuityCodes) => sdkBroken'
     /\ sdkBroken =>
          /\ \A c \in SdkCallers :
               Called(c) => /\ sdkCalls'[c].pc = "done"
                            /\ sdkCalls'[c].threw = "CHAIN_BROKEN"
                            /\ sdkRequests' = sdkRequests
          /\ Recorded("setLastKnownAnchor") =>
               /\ sdkLast'.threw # ""
               /\ sdkLastAnchor' = sdkLastAnchor
          /\ sdkLastAnchor' # sdkLastAnchor =>
               \/ sdkLast'.op = "resync" /\ ~sdkBroken'
               \/ \E c \in SdkCallers : Ended(c)
          /\ ~sdkBroken' =>
               /\ sdkLast'.op = "resync"
               /\ sdkLast'.threw = ""
               /\ ValidAnchor(sdkLast'.arg)
     /\ (Recorded("resync") /\ ValidAnchor(sdkLast'.arg)) =>
          /\ ~sdkBroken'
          /\ sdkLastAnchor' = sdkLast'.arg
     /\ (Recorded("resync") /\ ~ValidAnchor(sdkLast'.arg)) =>
          /\ sdkLast'.threw # ""
          /\ UNCHANGED <<sdkBroken, sdkLastAnchor>>]_vars

\* A call of getAnchor has thrown CHAIN_BROKEN, and resync with a valid
\* anchor has since ended the broken state and made its anchor the last
\* known one.
C29_Witness ==
  /\ \E c \in SdkCallers : sdkCalls[c].threw = "CHAIN_BROKEN"
  /\ ~sdkBroken
  /\ sdkLast.op = "resync"
  /\ sdkLast.threw = ""
  /\ sdkLastAnchor = sdkLast.arg

\* The anchor is one the claim lets getAnchor accept when `known` is the
\* last known anchor.
Accepts(anchor, known) ==
  IF known = NULL THEN TRUE
  ELSE \/ /\ anchor.beat_index = known.beat_index
          /\ anchor.hash = known.hash
       \/ /\ anchor.beat_index.n = known.beat_index.n + 1
          /\ anchor.prev_hash = known.hash

\* C30: a client that is not broken returns from getAnchor with an anchor
\* only if it knew none, or the anchor has the index and hash of the last
\* known one, or the next index and a prev_hash equal to the last known
\* hash; and a step of getAnchor changes the last known anchor only from
\* none or to an anchor of the next index linked to it.
C30_OneLinkedStep ==
  [][/\ \A c \in SdkCallers :
          (/\ Ended(c)
           /\ sdkCalls'[c].threw = ""
           /\ sdkCalls'[c].anchor # NULL) =>
            IF sdkCalls[c].pc = "verifying"
              THEN sdkCalls[c].broken
                     \/ Accepts(sdkCalls[c].anchor, sdkCalls[c].known)
              ELSE sdkBroken \/ Accepts(sdkCalls'[c].anchor, sdkLastAnchor)
     /\ ((\E c \in SdkCallers : Ended(c))
           /\ sdkLastAnchor' # sdkLastAnchor
           /\ sdkLastAnchor # NULL) =>
          /\ sdkLastAnchor'.beat_index.n = sdkLastAnchor.beat_index.n + 1
          /\ sdkLastAnchor'.prev_hash = sdkLastAnchor.hash]_vars

\* ===================================================== properties: receipts

\* C32: a timestamp or work-proof receipt that reaches the verifier with
\* every signed field as the server wrote it (in whatever order) has as
\* its reconstructed payload (the timestamp object; the receipt minus
\* signature) the very canonical JSON the server signed and verifies under
\* the published key of its kind; one with a signed field altered or
\* removed fails verification.
C32_ReceiptVerifiesIffUnchanged ==
  rc.pc = "verified" =>
    /\ rc.verified = ~rc.changed
    /\ ~rc.changed =>
         /\ canonicalJson(rc.payload)
              = toCanonicalJson(IF rc.kind = "timestamp"
                                THEN rc.body.timestamp
                                ELSE RestOfReceipt(rc.body.receipt))
         /\ ObjGet(rc.body.receipt, "signature").s.signer
              = (IF rc.kind = "timestamp" THEN ReceiptKey ELSE WorkProofKey)

C32_Witness ==
  /\ rc.pc = "verified" /\ rc.kind = "work_proof" /\ rc.reordered
  /\ ~rc.changed /\ rc.verified
  /\ ObjGet(rc.payload, "anchor_hash") = JsNull

\* ================================================== properties: local chain

\* Consecutive history entries are linked by index and by prev.
Linked(history) ==
  \A i \in 2..Len(history) :
    /\ history[i].index = history[i - 1].index + 1
    /\ history[i].prev = history[i - 1].hash

HeadIsLast(chain) ==
  /\ chain.history # <<>>
  /\ chain.history[Len(chain.history)] = chain.head

CountIsHeight(chain) ==
  chain.beatCount = chain.head.index - chain.genesis.index

ChainLinear(chain) ==
  Linked(chain.history) /\ HeadIsLast(chain) /\ CountIsHeight(chain)

\* A call that appended one beat appended the successor of the old head,
\* and one that appended several moved the head by as many.
AppendsNext ==
  /\ lc'.beatCount = lc.beatCount + 1 =>
       /\ lc'.head.index = lc.head.index + 1
       /\ lc'.head.prev = lc.head.hash
  /\ lc'.head.index - lc.head.index = lc'.beatCount - lc.beatCount

\* No call was asked to keep no beat: maxHistory is at least 1 and so was
\* every keepLast.
KeepsSome ==
  /\ ~lcSeen.keptNone
  /\ ~(lc.maxHistory.k = "int" /\ lc.maxHistory.n < 1)

\* C33 as stated: after any sequence of awaited advance, computeCatchup,
\* setAnchorIndex and clearHistory calls on a created chain every appended
\* beat succeeds the previous head, the history is linked, head is the last
\* history entry and beatCount is head.index - genesis.index.
C33_AlwaysLinear == [][AppendsNext /\ ChainLinear(lc')]_vars

\* C33, amended: the same, for a chain created with maxHistory >= 1 on
\* which every clearHistory call was given keepLast >= 1.
C33_LinearWhileKeepingSome ==
  [][AppendsNext /\ (KeepsSome' => ChainLinear(lc'))]_vars

C33_Witness ==
  /\ KeepsSome /\ lcSeen.cleared /\ lcSeen.catchups = 1
  /\ lcSeen.advances = MaxAdvances
  /\ lc.beatCount = BEATS_PER_ANCHOR + MaxAdvances
  /\ Len(lc.history) = 2
  /\ lc.anchorHash = None

\* C34: the chain restore makes of JSON.parse(persist()) equals the chain
\* persisted in every field, and so advances to the same beat and gives the
\* same proof.
C34_RestoredEqualsOriginal ==
  lcRestored.done =>
    /\ lcRestored.chain = lcRestored.from
    /\ Advanced(lcRestored.chain) = Advanced(lcRestored.from)
    /\ getProof(lcRestored.chain, None, None, DefaultSpotCheckCount)
         = getProof(lcRestored.from, None, None, DefaultSpotCheckCount)

\* C39: a proof getProof() returns on a chain built only through advance,
\* computeCatchup and setAnchorIndex passes the work-proof endpoint's logic
\* checks (enough spot checks, span within beats_computed) and every spot
\* check recomputes to its hash under the proof's anchor_hash.
C39_ProofPassesLogicChecks ==
  (lcProof.called /\ lcProof.plain /\ lcProof.proof # NULL
     /\ ~lcSeen.cleared) =>
    \E x \in {WorkProofFields(ProofBody(lcProof.proof))} :
      /\ EarlyLogicReason(x) = ""
      /\ FailedSpotChecks(x, ClampedDifficulty(x)) = {}

\* C37: under overlapping advance() calls, by hand or from auto-advance
\* ticks, no two history entries share an index, each entry's prev is the
\* hash of the entry before it, and beatCount is head.index - genesis.index.
C37_LinearUnderOverlap ==
  /\ \A i, j \in DOMAIN lc.history :
       i # j => lc.history[i].index # lc.history[j].index
  /\ \A i \in 2..Len(lc.history) :
       lc.history[i].prev = lc.history[i - 1].hash
  /\ CountIsHeight(lc)

\* The loops that have a timer pending.
PendingLoops == {g \in AutoLoops : lcLoops[g].pc = "waiting"}

\* C38: at most one auto-advance loop has a timer pending, and between the
\* return of stopAutoAdvance() and the next startAutoAdvance() no tick
\* appends a beat and calls onAdvance.
C38_OneLoopQuietOnceStopped ==
  [][/\ Cardinality(PendingLoops') <= 1
     /\ (lcAuto.stopped /\ lcAuto'.stopped) =>
          lcFired' = lcFired]_vars

====
